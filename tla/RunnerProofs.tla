---------------------------- MODULE RunnerProofs ----------------------------
(***************************************************************************)
(* For any requests, accounts and failures: the row a request leaves tells *)
(* the truth, no account is passed over, a request fails early for lack of *)
(* accounts only, and the pool counts every attempt once.                  *)
(***************************************************************************)
EXTENDS Runner, FoldLemmas, SequenceTheorems, FiniteSetTheorems, TLAPS

IsSeq(s) == s \in Seq({s[i] : i \in DOMAIN s})

LoopPhases == {"idle", "backoff", "picking", "opening"}

\* The error of a failure: only a frame of upstream's own may say 200.
FromFrame(err) == \E frame \in Frames : err = streamErrorToAPIError(frame)

Failing(err) ==
  /\ err.kind # "none" /\ httpStatusFromErr(err) # 0
  /\ httpStatusFromErr(err) = 200 => FromFrame(err)

\* Between two attempts every attempt so far was worth another one, and the
\* loop remembers how the last of them failed.
Looping(r) ==
  phase[r] \in LoopPhases =>
    /\ Len(history[r]) = attempt[r]
    /\ lastErr[r] = IF attempt[r] = 0 THEN NoErr ELSE history[r][attempt[r]].failure
    /\ attempt[r] # 0 => lastErr[r] # NoErr
    /\ \A i \in 1 .. attempt[r] : history[r][i].retryable
    /\ entry[r] = NoEntry

\* The attempt that is handed over is the last and the only one that opened.
Handed(r) ==
  phase[r] = "streaming" =>
    /\ Len(history[r]) = attempt[r] + 1
    /\ \A i \in 1 .. attempt[r] : history[r][i].retryable
    /\ history[r][attempt[r] + 1].class = "ok"
    /\ history[r][attempt[r] + 1].id = held[r].id
    /\ entry[r] = NoEntry

RowOfOpened(r, n) ==
  /\ n \in Nat \ {0} /\ history[r][n].class = "ok"
  /\ entry[r].account = history[r][n].id
  /\ entry[r].retried <=> n > 1

RowOfFailed(r, n) ==
  /\ \A i \in 1 .. n : history[r][i].class # "ok"
  /\ entry[r].account = -1 /\ ~entry[r].retried
  /\ \E err \in EndedBy(r) : entry[r].status = httpStatusFromErr(err)
  /\ entry[r].status = 200 => FromFrame(history[r][n].failure)

Through(r) ==
  phase[r] = "done" =>
    LET n == Len(history[r]) IN
    /\ entry[r].status # 0
    /\ \A i \in 1 .. (n - 1) : history[r][i].retryable
    /\ RowOfOpened(r, n) \/ RowOfFailed(r, n)
    /\ ctxDone[r] \/ steady[r] = {} \/ n = MaxAttempts
         \/ \E i \in 1 .. n : ~history[r][i].retryable

RequestInv(r) ==
  /\ IsSeq(history[r])
  /\ \A i \in 1 .. Len(history[r]) : history[r][i].class = "ok" => ~history[r][i].retryable
  /\ lastErr[r] = NoErr \/ Failing(lastErr[r])
  /\ Looping(r) /\ Handed(r) /\ Through(r)

Domains ==
  /\ phase \in [Requests -> Phases]
  /\ attempt \in [Requests -> 0 .. (MaxAttempts - 1)]
  /\ DOMAIN history = Requests /\ DOMAIN entry = Requests /\ DOMAIN held = Requests
  /\ DOMAIN lastErr = Requests /\ DOMAIN ctxDone = Requests

\* What is steady is fit now.
SteadyIsHealthy ==
  \A r \in Requests : phase[r] \notin {"idle", "done"} => steady[r] \subseteq Healthy

RunnerInv == Domains /\ SteadyIsHealthy /\ \A r \in Requests : RequestInv(r)
-----------------------------------------------------------------------------
(* The choice by affinity.                                                 *)

\* Every place of a sorted finite set is taken.
LEMMA EveryRankTaken ==
  ASSUME NEW S \in SUBSET Nat, IsFiniteSet(S),
         NEW k \in Nat, k < Cardinality(S)
  PROVE  \E id \in S : Cardinality(Before(S, id)) = k
<1> DEFINE taken(j) == \E id \in S : Cardinality(Before(S, id)) = j
           missing == {j \in Nat : j < Cardinality(S) /\ ~taken(j)}
<1>1. ASSUME NEW T \in SUBSET S, T # {}
      PROVE  \E m \in T : \A t \in T : m <= t
  BY <1>1, LeastNatural
<1>2. Cardinality(S) \in Nat
  BY FS_CardinalityType
<1>3. SUFFICES ASSUME k \in missing PROVE FALSE
  OBVIOUS
<1>4. PICK j \in missing : \A i \in missing : j <= i
  <2>1. missing \in SUBSET Nat /\ missing # {}
    BY <1>3
  <2> HIDE DEF missing
  <2> QED
    BY <2>1, LeastNatural
<1>5. CASE j = 0
  <2>1. S # {}
    BY <1>4, <1>5, FS_EmptySet
  <2>2. PICK m \in S : \A t \in S : m <= t
    BY <1>1, <2>1
  <2>3. Before(S, m) = {}
    <3>1. \A t \in S : ~(t < m)
      BY <2>2
    <3> QED
      BY <3>1 DEF Before
  <2> QED
    BY <1>4, <1>5, <2>3, FS_EmptySet
<1>6. CASE j # 0
  <2>1. j - 1 \in Nat /\ j - 1 < Cardinality(S) /\ taken(j - 1)
    BY <1>2, <1>4, <1>6
  <2>2. PICK id \in S : Cardinality(Before(S, id)) = j - 1
    BY <2>1
  <2> DEFINE upTo == Before(S, id) \cup {id}
             above == S \ upTo
  <2>3. IsFiniteSet(upTo) /\ Cardinality(upTo) = j
    <3>1. IsFiniteSet(Before(S, id)) /\ id \notin Before(S, id)
      BY FS_Subset DEF Before
    <3> QED
      BY <2>1, <2>2, <3>1, FS_AddElement
  <2>4. above # {}
    <3>1. SUFFICES ASSUME above = {} PROVE upTo = S
      BY <1>2, <1>4, <2>3
    <3> QED
      BY <3>1 DEF Before
  <2>5. PICK m \in above : \A t \in above : m <= t
    BY <1>1, <2>4
  <2>6. Before(S, m) = upTo
    <3>1. /\ m \in S /\ m \in Nat /\ id \in Nat /\ ~(m < id) /\ m # id
          /\ \A t \in S : ~(t < id) /\ t # id => m <= t
      BY <2>5 DEF Before
    <3>2. ASSUME NEW t \in S PROVE t < m <=> t < id \/ t = id
      BY <3>1
    <3> QED
      BY <3>2 DEF Before
  <2> QED
    BY <1>4, <2>3, <2>5, <2>6
<1> QED
  BY <1>5, <1>6

\* Pick returns one of its candidates.
LEMMA ChoiceIsCandidate ==
  ASSUME NEW S \in SUBSET AccountIDs, S # {}, NEW hash \in Nat
  PROVE  Choice(S, hash) \in S
<1>1. S \in SUBSET Nat /\ IsFiniteSet(S)
  BY AccountIDsAssumption, FS_Subset
<1>2. Cardinality(S) \in Nat /\ Cardinality(S) > 0
  BY <1>1, FS_CardinalityType, FS_EmptySet
<1>3. hash % Cardinality(S) \in Nat /\ hash % Cardinality(S) < Cardinality(S)
  BY <1>2
<1> QED
  BY <1>1, <1>3, EveryRankTaken DEF Choice
-----------------------------------------------------------------------------
LEMMA AppendToAny ==
  ASSUME NEW s, IsSeq(s), NEW e
  PROVE  /\ IsSeq(Append(s, e))
         /\ Len(s) \in Nat /\ Len(Append(s, e)) = Len(s) + 1
         /\ \A i \in 1 .. Len(s) : Append(s, e)[i] = s[i]
         /\ Append(s, e)[Len(s) + 1] = e
<1> DEFINE S == {s[i] : i \in DOMAIN s} \cup {e}
           t == Append(s, e)
<1>1. s \in Seq(S) /\ e \in S
  BY SeqMonotonic DEF IsSeq
<1> HIDE DEF S
<1>2. /\ t \in Seq(S) /\ Len(s) \in Nat /\ Len(t) = Len(s) + 1
      /\ \A i \in 1 .. Len(s) : t[i] = s[i]
      /\ t[Len(s) + 1] = e
  BY <1>1, AppendProperties
<1> HIDE DEF t
<1>3. IsSeq(t)
  <2>1. DOMAIN t = 1 .. Len(t) /\ Len(t) \in Nat
    BY <1>2
  <2>2. t \in [1 .. Len(t) -> {t[i] : i \in DOMAIN t}]
    BY <1>2, <2>1
  <2> QED
    BY <2>1, <2>2, SeqDef DEF IsSeq
<1> QED
  BY <1>2, <1>3 DEF t

\* What the rows of failed requests may hold.
LEMMA ErrorsFail ==
  /\ Failing(CtxError) /\ Failing(BareError) /\ Failing(NoneHealthy)
  /\ httpStatusFromErr(CtxError) # 200 /\ httpStatusFromErr(NoneHealthy) # 200
  /\ \A e \in OpenErrors : Failing(e)
  /\ \A f \in Frames : Failing(streamErrorToAPIError(f))
<1>1. /\ Failing(CtxError) /\ Failing(BareError) /\ Failing(NoneHealthy)
      /\ httpStatusFromErr(CtxError) # 200 /\ httpStatusFromErr(NoneHealthy) # 200
  BY DEF Failing, httpStatusFromErr, CtxError, BareError, NoneHealthy
<1>2. ASSUME NEW e \in OpenErrors PROVE Failing(e)
  BY StatusesAssumption DEF Failing, httpStatusFromErr
<1>3. ASSUME NEW f \in Frames PROVE Failing(streamErrorToAPIError(f))
  <2> DEFINE status == IF f.malformed \/ f.status = 0 THEN 502 ELSE f.status
             e == streamErrorToAPIError(f)
  <2>1. e.kind = "api" /\ e.status = status
    BY DEF streamErrorToAPIError, ApiError
  <2>2. status \in Int
    BY StatusesAssumption
  <2>3. FromFrame(e)
    BY DEF FromFrame
  <2> HIDE DEF e, status
  <2>4. Failing(e)
    BY <2>1, <2>2, <2>3 DEF Failing, httpStatusFromErr
  <2> QED
    BY <2>4 DEF e
<1> QED
  BY <1>1, <1>2, <1>3
-----------------------------------------------------------------------------
(* What a step does to one request.                                        *)

SameRecord(r) == history'[r] = history[r] /\ lastErr'[r] = lastErr[r]

Unmoved(r) ==
  /\ phase'[r] = phase[r] /\ attempt'[r] = attempt[r] /\ SameRecord(r)
  /\ entry'[r] = entry[r] /\ held'[r] = held[r]
  /\ ctxDone[r] => ctxDone'[r]
  /\ phase[r] = "done" => steady'[r] = steady[r]

LEMMA UnmovedKeepsInv ==
  ASSUME NEW r \in Requests, RequestInv(r), Unmoved(r)
  PROVE  RequestInv(r)'
<1>1. Looping(r)'
  BY DEF RequestInv, Unmoved, SameRecord, Looping
<1>2. Handed(r)'
  BY DEF RequestInv, Unmoved, SameRecord, Handed
<1>3. Through(r)'
  <2>1. CASE phase[r] # "done"
    BY <2>1 DEF Unmoved, Through
  <2>2. CASE phase[r] = "done"
    <3> DEFINE n == Len(history[r])
    <3>1. /\ history'[r] = history[r] /\ entry'[r] = entry[r]
          /\ ctxDone[r] => ctxDone'[r]
          /\ steady'[r] = steady[r]
      BY <2>2 DEF Unmoved, SameRecord
    <3>2. ASSUME NEW err \in EndedBy(r), entry[r].status = httpStatusFromErr(err)
          PROVE  (\E e \in EndedBy(r) : entry[r].status = httpStatusFromErr(e))'
      <4>1. (err \in EndedBy(r))'
        BY <3>1 DEF EndedBy
      <4> QED
        BY <3>1, <3>2, <4>1 DEF httpStatusFromErr
    <3>3. RowOfFailed(r, n) => RowOfFailed(r, n)'
      BY <3>1, <3>2 DEF RowOfFailed, FromFrame
    <3>4. RowOfOpened(r, n) => RowOfOpened(r, n)'
      BY <3>1 DEF RowOfOpened
    <3>5. Len(history'[r]) = n
      BY <3>1
    <3> QED
      BY <2>2, <3>1, <3>3, <3>4, <3>5 DEF RequestInv, Through
  <2> QED
    BY <2>1, <2>2
<1> QED
  BY <1>1, <1>2, <1>3 DEF RequestInv, Unmoved, SameRecord

\* From one phase of the loop to another, within an attempt.
LEMMA WithinAttempt ==
  ASSUME NEW r \in Requests, RequestInv(r), phase[r] \in LoopPhases,
         phase'[r] \in LoopPhases, attempt'[r] = attempt[r],
         SameRecord(r), entry'[r] = entry[r]
  PROVE  RequestInv(r)'
<1>1. Looping(r)'
  BY DEF RequestInv, SameRecord, Looping
<1>2. Handed(r)' /\ Through(r)'
  BY DEF LoopPhases, Handed, Through
<1> QED
  BY <1>1, <1>2 DEF RequestInv, SameRecord

\* The row of a request that opened nothing.
FailedRow(r, err) ==
  /\ phase'[r] = "done"
  /\ entry'[r] = [status  |-> httpStatusFromErr(err),
                  account |-> -1, retried |-> FALSE]

\* Between two attempts: the client is gone or nobody is left.
LEMMA FailsBetween ==
  ASSUME NEW r \in Requests, RequestInv(r), phase[r] \in LoopPhases,
         attempt[r] \in Nat, SameRecord(r),
         NEW err, FailedRow(r, err), Failing(err),
         \/ err = CtxError /\ ctxDone'[r]
         \/ err = IF lastErr[r] # NoErr THEN lastErr[r] ELSE NoneHealthy,
         ctxDone'[r] \/ steady'[r] = {}
  PROVE  RequestInv(r)'
<1> DEFINE n == attempt[r]
<1>1. /\ entry'[r].status = httpStatusFromErr(err) /\ entry'[r].status # 0
      /\ entry'[r].account = -1 /\ ~entry'[r].retried
  BY DEF FailedRow, Failing
<1>2. /\ Len(history[r]) = n
      /\ lastErr[r] = IF n = 0 THEN NoErr ELSE history[r][n].failure
      /\ \A i \in 1 .. n : history[r][i].retryable
      /\ \A i \in 1 .. n : history[r][i].class # "ok"
  BY DEF RequestInv, Looping
<1>3. ~(err = CtxError /\ ctxDone'[r]) =>
        err = IF n = 0 THEN NoneHealthy ELSE history[r][n].failure
  <2>1. n # 0 => lastErr[r] # NoErr
    BY DEF RequestInv, Looping
  <2> HIDE DEF n
  <2> QED
    BY <1>2, <2>1
<1>4. (\E e \in EndedBy(r) : entry[r].status = httpStatusFromErr(e))'
  <2>1. (err \in EndedBy(r))'
    <3>1. Len(history'[r]) = n /\ history'[r] = history[r]
      BY <1>2 DEF SameRecord
    <3> HIDE DEF n
    <3> QED
      BY <1>3, <3>1 DEF EndedBy
  <2> QED
    BY <1>1, <2>1 DEF httpStatusFromErr
<1>5. entry'[r].status = 200 => FromFrame(history[r][n].failure)
  BY <1>1, <1>3, ErrorsFail DEF Failing
<1>6. Through(r)'
  BY <1>1, <1>2, <1>4, <1>5 DEF Through, RowOfFailed, SameRecord, FromFrame
<1>7. Looping(r)' /\ Handed(r)'
  BY DEF Looping, Handed, FailedRow, LoopPhases
<1> QED
  BY <1>6, <1>7 DEF RequestInv, SameRecord

Adds(r, class, retryable, err) ==
  history'[r] = Append(history[r], Finished(r, class, retryable, err))

LEMMA FinishedAttempt ==
  ASSUME NEW r \in Requests, RequestInv(r), phase[r] \in LoopPhases,
         attempt[r] \in Nat, NEW class, NEW retryable \in BOOLEAN, NEW err,
         class = "ok" => ~retryable, Adds(r, class, retryable, err)
  PROVE  /\ IsSeq(history[r])'
         /\ Len(history'[r]) = attempt[r] + 1
         /\ \A i \in 1 .. attempt[r] : /\ history'[r][i].retryable
                                       /\ history'[r][i].class # "ok"
         /\ history'[r][attempt[r] + 1].class = class
         /\ history'[r][attempt[r] + 1].retryable = retryable
         /\ history'[r][attempt[r] + 1].id = held[r].id
         /\ history'[r][attempt[r] + 1].failure = err
         /\ \A i \in 1 .. Len(history'[r]) :
              history'[r][i].class = "ok" => ~history'[r][i].retryable
<1> DEFINE n == attempt[r]
           e == Finished(r, class, retryable, err)
<1>1. /\ IsSeq(history[r]) /\ Len(history[r]) = n
      /\ \A i \in 1 .. n : history[r][i].retryable /\ history[r][i].class # "ok"
  BY DEF RequestInv, Looping
<1>2. /\ IsSeq(Append(history[r], e))
      /\ Len(Append(history[r], e)) = n + 1
      /\ \A i \in 1 .. n : Append(history[r], e)[i] = history[r][i]
      /\ Append(history[r], e)[n + 1] = e
  <2> HIDE DEF e
  <2>1. /\ IsSeq(Append(history[r], e))
        /\ Len(Append(history[r], e)) = Len(history[r]) + 1
        /\ \A i \in 1 .. Len(history[r]) : Append(history[r], e)[i] = history[r][i]
        /\ Append(history[r], e)[Len(history[r]) + 1] = e
    BY <1>1, AppendToAny
  <2> QED
    BY <1>1, <2>1
<1>3. /\ e.class = class /\ e.retryable = retryable /\ e.id = held[r].id
      /\ e.failure = err
  BY DEF Finished
<1> HIDE DEF e
<1>4. /\ IsSeq(history'[r])
      /\ Len(history'[r]) = n + 1
      /\ \A i \in 1 .. n : history'[r][i] = history[r][i]
      /\ history'[r][n + 1] = e
  BY <1>2 DEF Adds, e
<1>5. \A i \in 1 .. n : history'[r][i].retryable /\ history'[r][i].class # "ok"
  BY <1>1, <1>4
<1>6. ASSUME NEW i \in 1 .. n + 1, history'[r][i].class = "ok"
      PROVE  ~history'[r][i].retryable
  <2>1. i = n + 1
    BY <1>5, <1>6
  <2> QED
    BY <1>3, <1>4, <1>6, <2>1
<1>7. IsSeq(history[r])'
  BY <1>4 DEF IsSeq
<1> QED
  BY <1>3, <1>4, <1>5, <1>6, <1>7

\* The request fails with its attempt: the error is final, or the budget used.
LEMMA FailsAfter ==
  ASSUME NEW r \in Requests, RequestInv(r), phase[r] \in LoopPhases,
         attempt[r] \in Nat, NEW err, FailedRow(r, err), Failing(err),
         NEW class, NEW retryable \in BOOLEAN, class # "ok",
         Adds(r, class, retryable, err),
         retryable => attempt[r] + 1 = MaxAttempts,
         lastErr'[r] = NoErr \/ Failing(lastErr'[r])
  PROVE  RequestInv(r)'
<1> DEFINE n == attempt[r] + 1
<1>1. /\ IsSeq(history[r])' /\ Len(history'[r]) = n
      /\ \A i \in 1 .. attempt[r] : history'[r][i].retryable /\ history'[r][i].class # "ok"
      /\ history'[r][n].class = class /\ history'[r][n].retryable = retryable
      /\ history'[r][n].failure = err
      /\ \A i \in 1 .. Len(history'[r]) :
           history'[r][i].class = "ok" => ~history'[r][i].retryable
  BY FinishedAttempt
<1>2. /\ entry'[r].status = httpStatusFromErr(err) /\ entry'[r].status # 0
      /\ entry'[r].account = -1 /\ ~entry'[r].retried
      /\ entry'[r].status = 200 => FromFrame(err)
  BY DEF FailedRow, Failing
<1>2a. (\E e \in EndedBy(r) : entry[r].status = httpStatusFromErr(e))'
  <2>1. n # 0
    OBVIOUS
  <2>2. (err \in EndedBy(r))'
    <3> HIDE DEF n
    <3> QED
      BY <1>1, <2>1 DEF EndedBy
  <2> QED
    BY <1>2, <2>2 DEF httpStatusFromErr
<1>3. \A i \in 1 .. n : history'[r][i].class # "ok"
  <2>1. \A i \in 1 .. n : i \in 1 .. attempt[r] \/ i = n
    OBVIOUS
  <2> HIDE DEF n
  <2> QED
    BY <1>1, <2>1, Zenon
<1>4. n = MaxAttempts \/ \E i \in 1 .. n : ~history'[r][i].retryable
  BY <1>1
<1>5. Through(r)'
  BY <1>1, <1>2, <1>3, <1>4, <1>2a DEF Through, RowOfFailed, FromFrame
<1>6. Looping(r)' /\ Handed(r)'
  BY DEF Looping, Handed, FailedRow, LoopPhases
<1>7. (lastErr[r] = NoErr \/ Failing(lastErr[r]))'
  BY DEF Failing
<1> QED
  BY <1>1, <1>5, <1>6, <1>7 DEF RequestInv

\* The next attempt begins.
LEMMA GoesOn ==
  ASSUME NEW r \in Requests, RequestInv(r), phase[r] \in LoopPhases,
         attempt[r] \in Nat, phase'[r] = "backoff",
         attempt'[r] = attempt[r] + 1, entry'[r] = entry[r],
         NEW class, class # "ok", NEW err, Adds(r, class, TRUE, err),
         lastErr'[r] = err, Failing(err)
  PROVE  RequestInv(r)'
<1> DEFINE n == attempt[r] + 1
<1>1. PICK retryable \in BOOLEAN : retryable
  OBVIOUS
<1>2. Adds(r, class, retryable, err)
  BY <1>1 DEF Adds, Finished
<1>3. /\ IsSeq(history[r])' /\ Len(history'[r]) = n
      /\ \A i \in 1 .. attempt[r] : history'[r][i].retryable
      /\ history'[r][n].retryable = retryable /\ history'[r][n].failure = err
      /\ \A i \in 1 .. Len(history'[r]) :
           history'[r][i].class = "ok" => ~history'[r][i].retryable
  BY <1>2, FinishedAttempt
<1>4. \A i \in 1 .. n : history'[r][i].retryable
  <2>1. \A i \in 1 .. n : i \in 1 .. attempt[r] \/ i = n
    OBVIOUS
  <2> HIDE DEF n
  <2> QED
    BY <1>1, <1>3, <2>1, Zenon
<1>5. n # 0 /\ lastErr'[r] # NoErr
  BY DEF Failing, NoErr
<1>6. Looping(r)'
  BY <1>3, <1>4, <1>5 DEF RequestInv, Looping
<1>7. Handed(r)' /\ Through(r)'
  BY DEF Handed, Through
<1>8. (lastErr[r] = NoErr \/ Failing(lastErr[r]))'
  BY DEF Failing, httpStatusFromErr, FromFrame
<1> QED
  BY <1>3, <1>6, <1>7, <1>8 DEF RequestInv

\* The attempt is handed to the handler.
LEMMA IsOpened ==
  ASSUME NEW r \in Requests, RequestInv(r), phase[r] \in LoopPhases,
         attempt[r] \in Nat, phase'[r] = "streaming",
         attempt'[r] = attempt[r], entry'[r] = entry[r],
         held'[r] = held[r], lastErr'[r] = lastErr[r], Adds(r, "ok", FALSE, NoErr)
  PROVE  RequestInv(r)'
<1> DEFINE n == attempt[r] + 1
<1>1. /\ IsSeq(history[r])' /\ Len(history'[r]) = n
      /\ \A i \in 1 .. attempt[r] : history'[r][i].retryable
      /\ history'[r][n].class = "ok" /\ history'[r][n].id = held[r].id
      /\ \A i \in 1 .. Len(history'[r]) :
           history'[r][i].class = "ok" => ~history'[r][i].retryable
  BY FinishedAttempt
<1>2. Handed(r)'
  BY <1>1 DEF RequestInv, Looping, Handed
<1>3. Looping(r)' /\ Through(r)'
  BY DEF Looping, Through, LoopPhases
<1> QED
  BY <1>1, <1>2, <1>3 DEF RequestInv

\* The handler is through with it.
LEMMA IsResponded ==
  ASSUME NEW r \in Requests, RequestInv(r), phase[r] = "streaming",
         attempt[r] \in Nat, phase'[r] = "done", SameRecord(r),
         entry'[r].status \in {200, 502}, entry'[r].account = held[r].id,
         entry'[r].retried <=> Retried(r)
  PROVE  RequestInv(r)'
<1> DEFINE n == attempt[r] + 1
<1>1. /\ Len(history[r]) = n /\ n \in Nat \ {0}
      /\ \A i \in 1 .. attempt[r] : history[r][i].retryable
      /\ history[r][n].class = "ok" /\ history[r][n].id = held[r].id
      /\ ~history[r][n].retryable
  BY DEF RequestInv, Handed
<1>2. /\ entry'[r].status # 0
      /\ entry'[r].account = history[r][n].id
      /\ entry'[r].retried <=> n > 1
  <2>1. Retried(r) <=> n > 1
    BY DEF Retried
  <2>2. entry'[r].status # 0 /\ entry'[r].account = history[r][n].id
    BY <1>1
  <2>3. entry'[r].retried <=> n > 1
    <3> HIDE DEF n
    <3> QED
      BY <2>1, Zenon
  <2> QED
    BY <2>2, <2>3
<1>3. Through(r)'
  BY <1>1, <1>2 DEF Through, RowOfOpened, SameRecord
<1>4. Looping(r)' /\ Handed(r)'
  BY DEF Looping, Handed, LoopPhases
<1> QED
  BY <1>3, <1>4 DEF RequestInv, SameRecord
-----------------------------------------------------------------------------
(* The steps.                                                              *)

LEMMA SteadyAfter ==
  ASSUME Observe
  PROVE  /\ SteadyIsHealthy'
         /\ \A r \in Requests : phase'[r] = "done" => steady'[r] = steady[r]
<1>1. \A r \in Requests :
        steady'[r] = IF phase'[r] \in {"idle", "done"} THEN steady[r]
                     ELSE IF phase[r] = "idle"         THEN Healthy'
                     ELSE steady[r] \cap Healthy'
  BY DEF Observe
<1> QED
  BY <1>1 DEF SteadyIsHealthy

OthersUnmoved(r) == \A q \in Requests \ {r} : Unmoved(q)

LEMMA OneRequestMoves ==
  ASSUME RunnerInv, Observe, NEW r \in Requests,
         Domains', OthersUnmoved(r), RequestInv(r)'
  PROVE  RunnerInv'
<1>1. SteadyIsHealthy'
  BY SteadyAfter
<1>2. ASSUME NEW q \in Requests PROVE RequestInv(q)'
  <2>1. CASE q = r
    BY <2>1
  <2>2. CASE q # r
    BY <2>2, UnmovedKeepsInv DEF OthersUnmoved, RunnerInv
  <2> QED
    BY <2>1, <2>2
<1> QED
  BY <1>1, <1>2 DEF RunnerInv

LEMMA ArriveKeepsInv ==
  ASSUME RunnerInv, Observe, NEW r \in Requests, Arrive(r)
  PROVE  RunnerInv'
<1>1. Domains'
  BY DEF RunnerInv, Domains, Arrive, loopVars, Phases
<1>2. OthersUnmoved(r)
  BY SteadyAfter DEF RunnerInv, Domains, Arrive, loopVars, OthersUnmoved,
    Unmoved, SameRecord
<1>3. RequestInv(r)'
  BY WithinAttempt DEF RunnerInv, Domains, Arrive, loopVars, SameRecord, LoopPhases
<1> QED
  BY <1>1, <1>2, <1>3, OneRequestMoves

LEMMA BackoffElapsedKeepsInv ==
  ASSUME RunnerInv, Observe, NEW r \in Requests, BackoffElapsed(r)
  PROVE  RunnerInv'
<1>1. Domains'
  BY DEF RunnerInv, Domains, BackoffElapsed, loopVars, Phases
<1>2. OthersUnmoved(r)
  BY SteadyAfter DEF RunnerInv, Domains, BackoffElapsed, loopVars,
    OthersUnmoved, Unmoved, SameRecord
<1>3. RequestInv(r)'
  BY WithinAttempt
  DEF RunnerInv, Domains, BackoffElapsed, loopVars, SameRecord, LoopPhases
<1> QED
  BY <1>1, <1>2, <1>3, OneRequestMoves

LEMMA BackoffCancelledKeepsInv ==
  ASSUME RunnerInv, Observe, NEW r \in Requests, BackoffCancelled(r)
  PROVE  RunnerInv'
<1>1. Domains'
  BY DEF RunnerInv, Domains, BackoffCancelled, RecordFailure, loopVars, Phases
<1>2. OthersUnmoved(r)
  BY SteadyAfter DEF RunnerInv, Domains, BackoffCancelled, RecordFailure,
    loopVars, OthersUnmoved, Unmoved, SameRecord
<1>3. RequestInv(r)'
  <2>1. phase[r] \in LoopPhases /\ attempt[r] \in Nat /\ RequestInv(r)
    BY DEF RunnerInv, Domains, BackoffCancelled, LoopPhases, MaxAttempts
  <2>2. FailedRow(r, CtxError) /\ Failing(CtxError)
    BY ErrorsFail DEF RunnerInv, Domains, BackoffCancelled, RecordFailure, FailedRow
  <2>3. SameRecord(r) /\ ctxDone'[r]
    BY DEF BackoffCancelled, loopVars, SameRecord
  <2> QED
    BY <2>1, <2>2, <2>3, FailsBetween
<1> QED
  BY <1>1, <1>2, <1>3, OneRequestMoves

LEMMA PickSomeKeepsInv ==
  ASSUME RunnerInv, Observe, NEW r \in Requests, PickSome(r)
  PROVE  RunnerInv'
<1>1. /\ phase[r] = "picking" /\ phase' = [phase EXCEPT ![r] = "opening"]
      /\ \E h : held' = [held EXCEPT ![r] = h]
      /\ UNCHANGED <<attempt, lastErr, ctxDone, entry, history>>
  BY DEF PickSome
<1>2. Domains'
  BY <1>1 DEF RunnerInv, Domains, Phases
<1>3. OthersUnmoved(r)
  BY <1>1, SteadyAfter DEF RunnerInv, Domains, OthersUnmoved, Unmoved, SameRecord
<1>4. RequestInv(r)'
  BY <1>1, WithinAttempt DEF RunnerInv, Domains, SameRecord, LoopPhases
<1> QED
  BY <1>2, <1>3, <1>4, OneRequestMoves

LEMMA PickNoneKeepsInv ==
  ASSUME RunnerInv, Observe, NEW r \in Requests, PickNone(r)
  PROVE  RunnerInv'
<1>1. /\ phase[r] = "picking"
      /\ Candidates(accounts, stats, now, tried[r]) = {}
      /\ UNCHANGED <<attempt, held, lastErr, ctxDone, history>>
  BY DEF PickNone
<1>2. CASE PickAgain(r)
  <2>1. UNCHANGED <<phase, entry>>
    BY <1>2 DEF PickNone
  <2>2. Domains'
    BY <1>1, <2>1 DEF RunnerInv, Domains
  <2>3. OthersUnmoved(r)
    BY <1>1, <2>1, SteadyAfter
    DEF RunnerInv, Domains, OthersUnmoved, Unmoved, SameRecord
  <2>4. RequestInv(r)'
    BY <1>1, <2>1, WithinAttempt DEF RunnerInv, SameRecord, LoopPhases
  <2> QED
    BY <2>2, <2>3, <2>4, OneRequestMoves
<1>3. CASE ~PickAgain(r)
  <2> DEFINE err == IF lastErr[r] # NoErr THEN lastErr[r] ELSE NoneHealthy
  <2>1. Failing(err) /\ RecordFailure(r, err)
    <3>1. RecordFailure(r, err)
      BY <1>3 DEF PickNone
    <3>2. lastErr[r] = NoErr \/ Failing(lastErr[r])
      BY DEF RunnerInv, RequestInv
    <3> QED
      BY <3>1, <3>2, ErrorsFail
  <2>2. Domains'
    BY <1>1, <2>1 DEF RunnerInv, Domains, RecordFailure, Phases
  <2>3. OthersUnmoved(r)
    BY <1>1, <2>1, SteadyAfter
    DEF RunnerInv, Domains, RecordFailure, OthersUnmoved, Unmoved, SameRecord
  <2>4. steady'[r] = {}
    <3>1. Healthy = {}
      BY <1>1, <1>3 DEF PickAgain, Healthy
    <3>2. steady[r] \subseteq Healthy
      BY <1>1 DEF RunnerInv, SteadyIsHealthy
    <3>3. steady'[r] = steady[r]
      BY <2>1, SteadyAfter DEF RunnerInv, Domains, RecordFailure
    <3> QED
      BY <3>1, <3>2, <3>3
  <2>5. FailedRow(r, err)
    BY <2>1 DEF RunnerInv, Domains, RecordFailure, FailedRow
  <2>6. RequestInv(r)'
    BY <1>1, <2>1, <2>4, <2>5, FailsBetween
    DEF RunnerInv, Domains, SameRecord, LoopPhases, MaxAttempts
  <2> QED
    BY <2>2, <2>3, <2>6, OneRequestMoves
<1> QED
  BY <1>2, <1>3

LEMMA TryAgainKeepsInv ==
  ASSUME RunnerInv, Observe, NEW r \in Requests, phase[r] = "opening",
         NEW class, class # "ok", NEW err, Failing(err),
         TryAgain(r, class, err), UNCHANGED <<held, ctxDone>>
  PROVE  RunnerInv'
<1>1. /\ RequestInv(r) /\ phase[r] \in LoopPhases
      /\ attempt[r] \in 0 .. 2 /\ attempt[r] \in Nat
  BY DEF RunnerInv, Domains, LoopPhases, MaxAttempts
<1>2. /\ history' = [history EXCEPT ![r] = Append(@, Finished(r, class, TRUE, err))]
      /\ lastErr' = [lastErr EXCEPT ![r] = err]
  BY DEF TryAgain
<1>3. Adds(r, class, TRUE, err) /\ lastErr'[r] = err
  BY <1>2 DEF RunnerInv, Domains, Adds
<1>4. CASE AttemptsLeft(r)
  <2>1. /\ attempt' = [attempt EXCEPT ![r] = @ + 1]
        /\ phase' = [phase EXCEPT ![r] = "backoff"]
        /\ entry' = entry
    BY <1>4 DEF TryAgain
  <2>2. Domains'
    <3>1. attempt[r] + 1 \in 0 .. (MaxAttempts - 1)
      BY <1>1, <1>4 DEF AttemptsLeft, MaxAttempts
    <3> QED
      BY <1>2, <2>1, <3>1 DEF RunnerInv, Domains, Phases
  <2>3. OthersUnmoved(r)
    BY <1>2, <2>1, SteadyAfter
    DEF RunnerInv, Domains, OthersUnmoved, Unmoved, SameRecord
  <2>4. RequestInv(r)'
    BY <1>1, <1>3, <2>1, GoesOn DEF RunnerInv, Domains
  <2> QED
    BY <2>2, <2>3, <2>4, OneRequestMoves
<1>5. CASE ~AttemptsLeft(r)
  <2>1. RecordFailure(r, err) /\ attempt' = attempt
    BY <1>5 DEF TryAgain
  <2>2. Domains'
    BY <1>2, <2>1 DEF RunnerInv, Domains, RecordFailure, Phases
  <2>3. OthersUnmoved(r)
    BY <1>2, <2>1, SteadyAfter
    DEF RunnerInv, Domains, RecordFailure, OthersUnmoved, Unmoved, SameRecord
  <2>4. FailedRow(r, err)
    BY <2>1 DEF RunnerInv, Domains, RecordFailure, FailedRow
  <2>5. attempt[r] + 1 = MaxAttempts
    BY <1>1, <1>5 DEF AttemptsLeft, MaxAttempts
  <2>6. RequestInv(r)'
    BY <1>1, <1>3, <2>4, <2>5, FailsAfter
  <2> QED
    BY <2>2, <2>3, <2>6, OneRequestMoves
<1> QED
  BY <1>4, <1>5

LEMMA GiveUpKeepsInv ==
  ASSUME RunnerInv, Observe, NEW r \in Requests, phase[r] = "opening",
         NEW class, class # "ok", NEW err, Failing(err),
         GiveUp(r, class, err), UNCHANGED <<held, ctxDone>>
  PROVE  RunnerInv'
<1>1. /\ RequestInv(r) /\ phase[r] \in LoopPhases /\ attempt[r] \in Nat
      /\ lastErr[r] = NoErr \/ Failing(lastErr[r])
  BY DEF RunnerInv, Domains, LoopPhases, MaxAttempts, RequestInv
<1>2. /\ history' = [history EXCEPT ![r] = Append(@, Finished(r, class, FALSE, err))]
      /\ RecordFailure(r, err) /\ UNCHANGED <<attempt, lastErr>>
  BY DEF GiveUp
<1>3. Domains'
  BY <1>2 DEF RunnerInv, Domains, RecordFailure, Phases
<1>4. OthersUnmoved(r)
  BY <1>2, SteadyAfter
  DEF RunnerInv, Domains, RecordFailure, OthersUnmoved, Unmoved, SameRecord
<1>5. RequestInv(r)'
  <2>1. FailedRow(r, err)
    BY <1>2 DEF RunnerInv, Domains, RecordFailure, FailedRow
  <2>2. Adds(r, class, FALSE, err) /\ lastErr'[r] = lastErr[r]
    BY <1>2 DEF RunnerInv, Domains, Adds
  <2> QED
    BY <1>1, <2>1, <2>2, FailsAfter
<1> QED
  BY <1>3, <1>4, <1>5, OneRequestMoves

LEMMA ErrorsKeepInv ==
  ASSUME RunnerInv, Observe, NEW r \in Requests, NEW err \in OpenErrors,
         OpenFails(r, err) \/ ReadFails(r, err)
  PROVE  RunnerInv'
<1> DEFINE class == classifyOpenError(err)
<1>1. class # "ok" /\ Failing(err)
  BY ErrorsAssumption, ErrorsFail DEF Classes
<1>2. /\ phase[r] = "opening" /\ UNCHANGED <<held, ctxDone>>
      /\ TryAgain(r, class, err) \/ GiveUp(r, class, err)
  BY DEF OpenFails, ReadFails
<1> HIDE DEF class
<1> QED
  BY <1>1, <1>2, TryAgainKeepsInv, GiveUpKeepsInv

LEMMA EndsEarlyKeepsInv ==
  ASSUME RunnerInv, Observe, NEW r \in Requests, EndsEarly(r)
  PROVE  RunnerInv'
<1>1. /\ phase[r] = "opening" /\ UNCHANGED <<held, ctxDone>>
      /\ TryAgain(r, "transient", BareError)
  BY DEF EndsEarly
<1> QED
  BY <1>1, ErrorsFail, TryAgainKeepsInv

LEMMA ErrorFrameKeepsInv ==
  ASSUME RunnerInv, Observe, NEW r \in Requests, NEW frame \in Frames,
         ErrorFrame(r, frame)
  PROVE  RunnerInv'
<1> DEFINE class == classifyStreamError(frame)
<1>1. class # "ok" /\ Failing(BareError) /\ Failing(streamErrorToAPIError(frame))
  BY ErrorsAssumption, ErrorsFail DEF Classes
<1>2. /\ phase[r] = "opening" /\ UNCHANGED <<held, ctxDone>>
      /\ \/ TryAgain(r, class, BareError)
         \/ GiveUp(r, class, streamErrorToAPIError(frame))
  BY DEF ErrorFrame
<1> HIDE DEF class
<1> QED
  BY <1>1, <1>2, TryAgainKeepsInv, GiveUpKeepsInv

LEMMA OpenedKeepsInv ==
  ASSUME RunnerInv, Observe, NEW r \in Requests, Opened(r)
  PROVE  RunnerInv'
<1>1. /\ phase[r] = "opening" /\ phase' = [phase EXCEPT ![r] = "streaming"]
      /\ history' = [history EXCEPT ![r] = Append(@, Finished(r, "ok", FALSE, NoErr))]
      /\ UNCHANGED <<attempt, held, lastErr, ctxDone, entry>>
  BY DEF Opened, loopVars
<1>2. Domains'
  BY <1>1 DEF RunnerInv, Domains, Phases
<1>3. OthersUnmoved(r)
  BY <1>1, SteadyAfter DEF RunnerInv, Domains, OthersUnmoved, Unmoved, SameRecord
<1>4. RequestInv(r)'
  <2>1. /\ RequestInv(r) /\ phase[r] \in LoopPhases /\ attempt[r] \in Nat
        /\ phase'[r] = "streaming"
    BY <1>1 DEF RunnerInv, Domains, LoopPhases, MaxAttempts
  <2>2. Adds(r, "ok", FALSE, NoErr)
    BY <1>1 DEF RunnerInv, Domains, Adds
  <2> QED
    BY <1>1, <2>1, <2>2, IsOpened
<1> QED
  BY <1>2, <1>3, <1>4, OneRequestMoves

LEMMA RespondedKeepsInv ==
  ASSUME RunnerInv, Observe, NEW r \in Requests, NEW broken \in BOOLEAN,
         NEW looksLikeClient \in BOOLEAN, Responded(r, broken, looksLikeClient)
  PROVE  RunnerInv'
<1> DEFINE status == IF broken /\ ~ctxDone[r] /\ ~looksLikeClient THEN 502 ELSE 200
           row == [status |-> status, account |-> held[r].id, retried |-> Retried(r)]
<1>1. /\ phase[r] = "streaming" /\ phase' = [phase EXCEPT ![r] = "done"]
      /\ entry' = [entry EXCEPT ![r] = row]
      /\ UNCHANGED <<attempt, held, lastErr, ctxDone, history>>
  BY DEF Responded, loopVars
<1>2. Domains'
  BY <1>1 DEF RunnerInv, Domains, Phases
<1>3. OthersUnmoved(r)
  BY <1>1, SteadyAfter DEF RunnerInv, Domains, OthersUnmoved, Unmoved, SameRecord
<1>4. RequestInv(r)'
  <2>1. /\ RequestInv(r) /\ attempt[r] \in Nat /\ phase'[r] = "done"
        /\ SameRecord(r)
    BY <1>1 DEF RunnerInv, Domains, MaxAttempts, SameRecord
  <2>2. entry'[r] = row
    BY <1>1 DEF RunnerInv, Domains
  <2>3. row.status \in {200, 502} /\ row.account = held[r].id
    OBVIOUS
  <2>4. row.retried <=> Retried(r)
    OBVIOUS
  <2> HIDE DEF row
  <2> QED
    BY <1>1, <2>1, <2>2, <2>3, <2>4, IsResponded
<1> QED
  BY <1>2, <1>3, <1>4, OneRequestMoves

LEMMA ClientLeavesKeepsInv ==
  ASSUME RunnerInv, Observe, NEW r \in Requests, ClientLeaves(r)
  PROVE  RunnerInv'
<1>1. /\ phase[r] # "done" /\ ctxDone' = [ctxDone EXCEPT ![r] = TRUE]
      /\ UNCHANGED <<phase, attempt, held, lastErr, entry, history>>
  BY DEF ClientLeaves, loopVars
<1>2. Domains'
  BY <1>1 DEF RunnerInv, Domains
<1>3. \A q \in Requests : Unmoved(q)
  BY <1>1, SteadyAfter DEF RunnerInv, Domains, Unmoved, SameRecord
<1>4. OthersUnmoved(r) /\ RequestInv(r)'
  BY <1>3, UnmovedKeepsInv DEF OthersUnmoved, RunnerInv
<1> QED
  BY <1>2, <1>4, OneRequestMoves

\* The accounts change, time passes.
LEMMA EnvironmentMovesNoRequest ==
  ASSUME Environment
  PROVE  UNCHANGED reqVars
<1>1. ASSUME NEW a, NEW row, Edit(a, row) PROVE UNCHANGED reqVars
  BY <1>1 DEF Edit
<1>2. CASE Tick
  BY <1>2 DEF Tick
<1> QED
  BY <1>1, <1>2 DEF Environment, SetPaused, DeleteAccount, SetCredits, AddAccount

LEMMA EnvironmentKeepsInv ==
  ASSUME RunnerInv, Observe, Environment
  PROVE  RunnerInv'
<1>1. UNCHANGED reqVars
  BY EnvironmentMovesNoRequest
<1>2. Domains'
  BY <1>1 DEF RunnerInv, Domains, reqVars
<1>3. \A q \in Requests : Unmoved(q)
  BY <1>1, SteadyAfter DEF Unmoved, SameRecord, reqVars
<1>4. SteadyIsHealthy'
  BY SteadyAfter
<1> QED
  BY <1>2, <1>3, <1>4, UnmovedKeepsInv DEF RunnerInv

LEMMA StutterKeepsInv ==
  ASSUME RunnerInv, UNCHANGED vars
  PROVE  RunnerInv'
<1>1. UNCHANGED <<accounts, stats, now, phase, attempt, held, lastErr, ctxDone,
                  entry, history, steady>>
  BY DEF vars, poolVars, reqVars
<1>2. \A q \in Requests : RequestInv(q)'
  BY <1>1, UnmovedKeepsInv DEF RunnerInv, Unmoved, SameRecord
<1>3. SteadyIsHealthy'
  <2>1. Healthy' = Healthy
    BY <1>1 DEF Healthy, Candidates, Consulted, Rolled, OverThreshold, rollLocked
  <2> QED
    BY <1>1, <2>1 DEF RunnerInv, SteadyIsHealthy
<1> QED
  BY <1>1, <1>2, <1>3 DEF RunnerInv, Domains

LEMMA InitHasInv == Init => RunnerInv
<1> SUFFICES ASSUME Init PROVE RunnerInv
  OBVIOUS
<1>1. Domains /\ SteadyIsHealthy
  BY DEF Init, Domains, SteadyIsHealthy, Phases, MaxAttempts
<1>2. ASSUME NEW r \in Requests PROVE RequestInv(r)
  <2>1. IsSeq(<<>>) /\ Len(<<>>) = 0
    BY DEF IsSeq
  <2> QED
    BY <2>1 DEF Init, RequestInv, Looping, Handed, Through
<1> QED
  BY <1>1, <1>2 DEF RunnerInv

LEMMA StepKeepsInv ==
  ASSUME RunnerInv, [Next]_vars
  PROVE  RunnerInv'
<1>1. CASE UNCHANGED vars
  BY <1>1, StutterKeepsInv
<1>2. CASE Next
  <2>1. Observe
    BY <1>2 DEF Next
  <2>2. ASSUME NEW r \in Requests, Arrive(r) PROVE RunnerInv'
    BY <2>1, <2>2, ArriveKeepsInv
  <2>3. ASSUME NEW r \in Requests, Local(r) PROVE RunnerInv'
    BY <2>1, <2>3, BackoffElapsedKeepsInv, BackoffCancelledKeepsInv,
      PickSomeKeepsInv, PickNoneKeepsInv DEF Local
  <2>4. ASSUME NEW r \in Requests, Upstream(r) PROVE RunnerInv'
    BY <2>1, <2>4, ErrorsKeepInv, EndsEarlyKeepsInv, ErrorFrameKeepsInv,
      OpenedKeepsInv, RespondedKeepsInv DEF Upstream
  <2>5. ASSUME NEW r \in Requests, ClientLeaves(r) PROVE RunnerInv'
    BY <2>1, <2>5, ClientLeavesKeepsInv
  <2>6. CASE Environment
    BY <2>1, <2>6, EnvironmentKeepsInv
  <2> QED
    BY <1>2, <2>2, <2>3, <2>4, <2>5, <2>6 DEF Next
<1> QED
  BY <1>1, <1>2

THEOREM RunnerHolds == Spec => []RunnerInv
BY InitHasInv, StepKeepsInv, PTL DEF Spec
-----------------------------------------------------------------------------
\* The one row a request leaves in the traffic log tells the truth about its
\* attempts, whatever upstream answers and however the accounts change
\* (anthropic.go:135-198, openai.go:239-314).
THEOREM RowTellsTheTruth == Spec => []EntryTellsTheTruth
<1>1. ASSUME RunnerInv, NEW r \in Requests
      PROVE  LET n == Len(history[r])
                 opened == \E i \in 1 .. n : history[r][i].class = "ok"
             IN  /\ entry[r] # NoEntry <=> phase[r] = "done"
                 /\ \A i \in 1 .. (n - 1) : history[r][i].retryable
                 /\ (phase[r] = "done" /\ opened) =>
                      /\ history[r][n].class = "ok"
                      /\ entry[r].account = history[r][n].id
                      /\ entry[r].retried <=> n > 1
                 /\ (phase[r] = "done" /\ ~opened) =>
                      /\ entry[r].account = -1 /\ ~entry[r].retried
                      /\ \E err \in EndedBy(r) : entry[r].status = httpStatusFromErr(err)
                      /\ entry[r].status = 200 => FromFrame(history[r][n].failure)
  <2> DEFINE n == Len(history[r])
  <2>1. /\ RequestInv(r) /\ attempt[r] \in Nat
        /\ phase[r] \in {"done", "streaming"} \cup LoopPhases
    BY <1>1 DEF RunnerInv, Domains, MaxAttempts, Phases, LoopPhases
  <2>2. CASE phase[r] \in LoopPhases
    BY <2>1, <2>2 DEF RequestInv, Looping, LoopPhases
  <2>3. CASE phase[r] = "streaming"
    <3>1. /\ entry[r] = NoEntry /\ n - 1 = attempt[r]
          /\ \A i \in 1 .. attempt[r] : history[r][i].retryable
      BY <2>1, <2>3 DEF RequestInv, Handed
    <3> QED
      BY <2>3, <3>1
  <2>4. CASE phase[r] = "done"
    <3>1. /\ entry[r] # NoEntry
          /\ \A i \in 1 .. (n - 1) : history[r][i].retryable
          /\ RowOfOpened(r, n) \/ RowOfFailed(r, n)
      BY <2>1, <2>4 DEF RequestInv, Through, NoEntry
    <3>2. CASE RowOfOpened(r, n)
      BY <2>4, <3>1, <3>2 DEF RowOfOpened
    <3>3. CASE RowOfFailed(r, n)
      BY <2>4, <3>1, <3>3 DEF RowOfFailed
    <3> QED
      BY <3>1, <3>2, <3>3
  <2> QED
    BY <2>1, <2>2, <2>3, <2>4
<1>2. RunnerInv => EntryTellsTheTruth
  BY <1>1 DEF EntryTellsTheTruth, FromFrame
<1> QED
  BY <1>2, RunnerHolds, PTL

\* While some account stays fit and the client stays, retryable failures cost
\* a request nothing but its budget (retry.go:136-161): dropping the exclusion
\* neither uses the budget up nor makes the request fail early.
THEOREM BudgetHolds == Spec => []BudgetIsUsed
<1>1. ASSUME RunnerInv, NEW r \in Requests,
             phase[r] = "done", ~ctxDone[r], steady[r] # {},
             \A i \in DOMAIN history[r] : history[r][i].retryable
      PROVE  Len(history[r]) = MaxAttempts
  <2>1. Through(r) /\ IsSeq(history[r])
    BY <1>1 DEF RunnerInv, RequestInv
  <2>2. DOMAIN history[r] = 1 .. Len(history[r])
    BY <2>1 DEF IsSeq
  <2> QED
    BY <1>1, <2>1, <2>2 DEF Through
<1>2. RunnerInv => BudgetIsUsed
  BY <1>1 DEF BudgetIsUsed
<1> QED
  BY <1>2, RunnerHolds, PTL
-----------------------------------------------------------------------------
(* Whose turn it is.                                                       *)

\* No account was tried twice, and all that were are excluded.
InTurn(r) == tried[r] = Attempted(r) /\ Attempts(r) = Cardinality(Attempted(r))

Turns(r) ==
  /\ IsFiniteSet(Attempted(r))
  /\ tried[r] \subseteq Attempted(r)
  /\ InTurn(r) \/ steady[r] \subseteq Attempted(r)
  /\ phase[r] = "idle" => InTurn(r)

TurnsInv == DOMAIN tried = Requests /\ \A r \in Requests : Turns(r)

LEMMA SteadyShrinks ==
  ASSUME Observe, NEW r \in Requests, phase[r] = "idle" => phase'[r] = "idle"
  PROVE  steady'[r] \subseteq steady[r]
BY DEF Observe

\* What is fit and not excluded is a candidate.
LEMMA ExcludedOnly ==
  ASSUME NEW exclude, NEW a \in Healthy, a \notin exclude
  PROVE  a \in Candidates(accounts, stats, now, exclude)
<1> DEFINE all  == Consulted(accounts, {})
           some == Consulted(accounts, exclude)
<1>1. a \in all /\ ~OverThreshold(Rolled(stats, all, now)[a])
  BY DEF Healthy, Candidates
<1>2. a \in some /\ a \in AccountIDs
  BY <1>1 DEF Consulted
<1>3. Rolled(stats, some, now)[a] = Rolled(stats, all, now)[a]
  BY <1>1, <1>2 DEF Rolled
<1> QED
  BY <1>1, <1>2, <1>3 DEF Candidates

\* The attempts of a request stay what they were.
SameAttempts(r) ==
  /\ history'[r] = history[r] /\ held'[r] = held[r]
  /\ phase'[r] = "opening" <=> phase[r] = "opening"

LEMMA SameAttemptsKeepTurns ==
  ASSUME Observe, NEW r \in Requests, Turns(r), SameAttempts(r),
         tried'[r] = tried[r], phase'[r] = "idle" => phase[r] = "idle"
  PROVE  Turns(r)'
<1>1. Attempted(r)' = Attempted(r) /\ Attempts(r)' = Attempts(r)
  BY DEF SameAttempts, Attempted, Attempts
<1>2. InTurn(r)' <=> InTurn(r)
  BY <1>1 DEF InTurn
<1>3. CASE phase[r] = "idle"
  BY <1>1, <1>2, <1>3 DEF Turns
<1>4. CASE phase[r] # "idle"
  BY <1>1, <1>2, <1>4, SteadyShrinks DEF Turns
<1> QED
  BY <1>3, <1>4

\* Finishing an attempt makes it history.
LEMMA FinishedKeepsTurns ==
  ASSUME Observe, NEW r \in Requests, Turns(r), IsSeq(history[r]),
         phase[r] = "opening", phase'[r] \notin {"opening", "idle"},
         NEW class, NEW retryable, NEW err, Adds(r, class, retryable, err),
         tried'[r] = tried[r]
  PROVE  Turns(r)'
<1> DEFINE e == Finished(r, class, retryable, err)
           n == Len(history[r])
<1>1. e.id = held[r].id
  BY DEF Finished
<1> HIDE DEF e
<1>2. /\ n \in Nat /\ Len(history'[r]) = n + 1
      /\ \A i \in 1 .. n : history'[r][i] = history[r][i]
      /\ history'[r][n + 1] = e
  BY AppendToAny DEF Adds, e
<1>3. DOMAIN history[r] = 1 .. n /\ DOMAIN history'[r] = 1 .. n + 1
  <2>1. IsSeq(history'[r])
    BY AppendToAny DEF Adds, e
  <2> QED
    BY <1>2, <2>1 DEF IsSeq
<1>4. {history'[r][i].id : i \in 1 .. n + 1} =
        {history[r][i].id : i \in 1 .. n} \cup {held[r].id}
  <2>1. \A i \in 1 .. n + 1 : i \in 1 .. n \/ i = n + 1
    BY <1>2
  <2>2. n + 1 \in 1 .. n + 1 /\ \A i \in 1 .. n : i \in 1 .. n + 1
    BY <1>2
  <2>3. \A i \in 1 .. n : history'[r][i].id = history[r][i].id
    BY <1>2
  <2>4. history'[r][n + 1].id = held[r].id
    BY <1>1, <1>2
  <2> HIDE DEF n
  <2> QED
    BY <2>1, <2>2, <2>3, <2>4
<1>5. Attempted(r)' = Attempted(r) /\ Attempts(r)' = Attempts(r)
  <2>1. Attempted(r) = {history[r][i].id : i \in 1 .. n} \cup {held[r].id}
    BY <1>3 DEF Attempted
  <2>2. Attempted(r)' = {history'[r][i].id : i \in 1 .. n + 1}
    BY <1>3 DEF Attempted
  <2>3. Attempts(r) = n + 1
    BY DEF Attempts
  <2>4. Attempts(r)' = Len(history'[r]) + 0
    BY DEF Attempts
  <2>5. Attempted(r)' = Attempted(r)
    BY <1>4, <2>1, <2>2, Zenon
  <2>6. Attempts(r)' = Attempts(r)
    BY <1>2, <2>3, <2>4
  <2> QED
    BY <2>5, <2>6
<1>6. InTurn(r)' <=> InTurn(r)
  BY <1>5 DEF InTurn
<1> QED
  BY <1>5, <1>6, SteadyShrinks DEF Turns

OthersKeepTurns(r) == \A q \in Requests \ {r} : Turns(q)'

\* Another request does not notice.
LEMMA OthersNotNoticed ==
  ASSUME TurnsInv, Observe, NEW q \in Requests,
         history'[q] = history[q], held'[q] = held[q],
         phase'[q] = phase[q], tried'[q] = tried[q]
  PROVE  Turns(q)'
BY SameAttemptsKeepTurns DEF TurnsInv, SameAttempts

LEMMA PickSomeKeepsTurns ==
  ASSUME RunnerInv, TurnsInv, Observe, NEW r \in Requests, PickSome(r)
  PROVE  TurnsInv'
<1> DEFINE candidates == Candidates(accounts, stats, now, tried[r])
           id == Choice(candidates, Hash[r])
<1>1. /\ phase[r] = "picking" /\ candidates # {}
      /\ tried' = [tried EXCEPT ![r] = @ \cup {id}]
      /\ held' = [held EXCEPT ![r] = [id |-> id, key |-> accounts[id].key]]
      /\ phase' = [phase EXCEPT ![r] = "opening"]
      /\ UNCHANGED history
  BY DEF PickSome, Exclude
<1>2. id \notin tried[r]
  <2>1. candidates \in SUBSET AccountIDs
    BY DEF Candidates, Consulted
  <2>2. id \in candidates
    BY <1>1, <2>1, HashAssumption, ChoiceIsCandidate
  <2> QED
    BY <2>2 DEF Candidates, Consulted
<1> HIDE DEF candidates, id
<1>3. /\ phase'[r] = "opening" /\ held'[r].id = id
      /\ tried'[r] = tried[r] \cup {id} /\ history'[r] = history[r]
  BY <1>1 DEF RunnerInv, Domains, TurnsInv
<1>4. /\ Attempted(r)' = Attempted(r) \cup {id}
      /\ Attempts(r)' = Attempts(r) + 1
  <2>1. Attempted(r) = {history[r][i].id : i \in DOMAIN history[r]}
    BY <1>1 DEF Attempted
  <2>2. Attempted(r)' = {history[r][i].id : i \in DOMAIN history[r]} \cup {id}
    BY <1>3 DEF Attempted
  <2>3. Len(history[r]) \in Nat
    BY AppendToAny DEF RunnerInv, RequestInv
  <2>4. Attempts(r)' = Attempts(r) + 1
    BY <1>1, <1>3, <2>3 DEF Attempts
  <2> QED
    BY <2>1, <2>2, <2>4
<1>5. Turns(r)'
  <2>1. Turns(r)
    BY DEF TurnsInv
  <2>2. /\ IsFiniteSet(Attempted(r) \cup {id})
        /\ id \notin Attempted(r) =>
             Cardinality(Attempted(r) \cup {id}) = Cardinality(Attempted(r)) + 1
    BY <2>1, FS_AddElement DEF Turns
  <2>3. steady'[r] \subseteq steady[r]
    BY <1>1, SteadyShrinks
  <2>4. CASE InTurn(r)
    <3>1. InTurn(r)'
      BY <1>2, <1>3, <1>4, <2>2, <2>4 DEF InTurn
    <3> QED
      BY <1>3, <1>4, <2>2, <3>1 DEF Turns, InTurn
  <2>5. CASE steady[r] \subseteq Attempted(r)
    BY <1>3, <1>4, <2>1, <2>2, <2>3, <2>5 DEF Turns
  <2> QED
    BY <2>1, <2>4, <2>5 DEF Turns
<1>6. OthersKeepTurns(r)
  BY <1>1, OthersNotNoticed DEF OthersKeepTurns, TurnsInv, RunnerInv, Domains
<1> QED
  BY <1>1, <1>5, <1>6 DEF TurnsInv, OthersKeepTurns

LEMMA PickNoneKeepsTurns ==
  ASSUME RunnerInv, TurnsInv, Observe, NEW r \in Requests, PickNone(r)
  PROVE  TurnsInv'
<1>1. /\ phase[r] = "picking"
      /\ Candidates(accounts, stats, now, tried[r]) = {}
      /\ tried' = [tried EXCEPT ![r] = {}]
      /\ UNCHANGED <<history, held>>
  BY DEF PickNone
<1>2. Turns(r) /\ tried'[r] = {}
  BY <1>1 DEF TurnsInv
<1>3. CASE PickAgain(r)
  <2>1. phase' = phase
    BY <1>3 DEF PickNone
  <2>2. Attempted(r)' = Attempted(r)
    BY <1>1, <2>1 DEF Attempted
  <2>3. steady'[r] \subseteq Attempted(r)
    <3>1. Healthy \subseteq tried[r]
      BY <1>1, ExcludedOnly
    <3>2. steady[r] \subseteq Healthy
      BY <1>1 DEF RunnerInv, SteadyIsHealthy
    <3>3. steady'[r] \subseteq steady[r]
      BY <1>1, SteadyShrinks
    <3> QED
      BY <1>2, <3>1, <3>2, <3>3 DEF Turns
  <2>4. Turns(r)'
    BY <1>1, <1>2, <2>1, <2>2, <2>3 DEF Turns
  <2>5. OthersKeepTurns(r)
    BY <1>1, <2>1, OthersNotNoticed DEF OthersKeepTurns, TurnsInv
  <2> QED
    BY <1>1, <2>4, <2>5 DEF TurnsInv, OthersKeepTurns
<1>4. CASE ~PickAgain(r)
  <2>1. phase' = [phase EXCEPT ![r] = "done"] /\ tried[r] = {}
    BY <1>4 DEF PickNone, PickAgain, RecordFailure
  <2>2. Turns(r)'
    BY <1>1, <1>2, <2>1, SameAttemptsKeepTurns
    DEF SameAttempts, RunnerInv, Domains
  <2>3. OthersKeepTurns(r)
    BY <1>1, <2>1, OthersNotNoticed
    DEF OthersKeepTurns, TurnsInv, RunnerInv, Domains
  <2> QED
    BY <1>1, <2>2, <2>3 DEF TurnsInv, OthersKeepTurns
<1> QED
  BY <1>3, <1>4

\* An attempt finishes: it failed, or it is handed over.
LEMMA FinishKeepsTurns ==
  ASSUME RunnerInv, TurnsInv, Observe, NEW r \in Requests,
         NEW class, NEW retryable, NEW err, NEW next \in {"backoff", "streaming", "done"},
         phase[r] = "opening", phase' = [phase EXCEPT ![r] = next],
         history' = [history EXCEPT ![r] = Append(@, Finished(r, class, retryable, err))],
         UNCHANGED <<tried, held>>
  PROVE  TurnsInv'
<1>1. Turns(r)'
  <2>1. Turns(r) /\ IsSeq(history[r]) /\ phase'[r] = next
    BY DEF TurnsInv, RunnerInv, RequestInv, Domains
  <2>2. Adds(r, class, retryable, err) /\ tried'[r] = tried[r]
    BY DEF Adds, RunnerInv, Domains
  <2> QED
    BY <2>1, <2>2, FinishedKeepsTurns
<1>2. OthersKeepTurns(r)
  BY OthersNotNoticed DEF OthersKeepTurns, TurnsInv, RunnerInv, Domains
<1> QED
  BY <1>1, <1>2 DEF TurnsInv, OthersKeepTurns

\* Nobody is tried and nothing finishes.
LEMMA NoAttemptKeepsTurns ==
  ASSUME RunnerInv, TurnsInv, Observe, UNCHANGED <<tried, held, history>>,
         \A r \in Requests : /\ phase'[r] = "opening" <=> phase[r] = "opening"
                             /\ phase'[r] = "idle" => phase[r] = "idle"
  PROVE  TurnsInv'
<1>1. \A r \in Requests : Turns(r)'
  BY SameAttemptsKeepTurns DEF SameAttempts, TurnsInv
<1> QED
  BY <1>1 DEF TurnsInv

LEMMA ResultsKeepTurns ==
  ASSUME RunnerInv, TurnsInv, Observe, NEW r \in Requests,
         phase[r] = "opening", UNCHANGED <<tried, held>>,
         NEW class, NEW err, TryAgain(r, class, err) \/ GiveUp(r, class, err)
  PROVE  TurnsInv'
<1>1. CASE TryAgain(r, class, err)
  <2>1. history' = [history EXCEPT ![r] = Append(@, Finished(r, class, TRUE, err))]
    BY <1>1 DEF TryAgain
  <2>2. PICK next \in {"backoff", "streaming", "done"} :
          phase' = [phase EXCEPT ![r] = next]
    BY <1>1 DEF TryAgain, RecordFailure
  <2> QED
    BY <2>1, <2>2, FinishKeepsTurns
<1>2. CASE GiveUp(r, class, err)
  <2>1. /\ history' = [history EXCEPT ![r] = Append(@, Finished(r, class, FALSE, err))]
        /\ phase' = [phase EXCEPT ![r] = "done"]
    BY <1>2 DEF GiveUp, RecordFailure
  <2> QED
    BY <2>1, FinishKeepsTurns
<1> QED
  BY <1>1, <1>2

LEMMA UpstreamKeepsTurns ==
  ASSUME RunnerInv, TurnsInv, Observe, NEW r \in Requests, Upstream(r)
  PROVE  TurnsInv'
<1>1. ASSUME NEW err \in OpenErrors, OpenFails(r, err) \/ ReadFails(r, err)
      PROVE  TurnsInv'
  <2> DEFINE class == classifyOpenError(err)
  <2>1. /\ phase[r] = "opening" /\ UNCHANGED <<tried, held>>
        /\ TryAgain(r, class, err) \/ GiveUp(r, class, err)
    BY <1>1 DEF OpenFails, ReadFails
  <2> HIDE DEF class
  <2> QED
    BY <2>1, ResultsKeepTurns
<1>2. CASE EndsEarly(r)
  BY <1>2, ResultsKeepTurns DEF EndsEarly
<1>3. ASSUME NEW frame \in Frames, ErrorFrame(r, frame) PROVE TurnsInv'
  <2> DEFINE class == classifyStreamError(frame)
  <2>1. /\ phase[r] = "opening" /\ UNCHANGED <<tried, held>>
        /\ \/ TryAgain(r, class, BareError)
           \/ GiveUp(r, class, streamErrorToAPIError(frame))
    BY <1>3 DEF ErrorFrame
  <2> HIDE DEF class
  <2> QED
    BY <2>1, ResultsKeepTurns
<1>4. CASE Opened(r)
  BY <1>4, FinishKeepsTurns DEF Opened, loopVars
<1>5. ASSUME NEW broken \in BOOLEAN, NEW looksLikeClient \in BOOLEAN,
             Responded(r, broken, looksLikeClient)
      PROVE  TurnsInv'
  BY <1>5, NoAttemptKeepsTurns DEF Responded, loopVars, RunnerInv, Domains
<1> QED
  BY <1>1, <1>2, <1>3, <1>4, <1>5 DEF Upstream

LEMMA LocalKeepsTurns ==
  ASSUME RunnerInv, TurnsInv, Observe, NEW r \in Requests, Local(r)
  PROVE  TurnsInv'
<1>1. CASE BackoffElapsed(r)
  BY <1>1, NoAttemptKeepsTurns DEF BackoffElapsed, loopVars, RunnerInv, Domains
<1>2. CASE BackoffCancelled(r)
  BY <1>2, NoAttemptKeepsTurns
  DEF BackoffCancelled, RecordFailure, loopVars, RunnerInv, Domains
<1>3. CASE PickSome(r)
  BY <1>3, PickSomeKeepsTurns
<1>4. CASE PickNone(r)
  BY <1>4, PickNoneKeepsTurns
<1> QED
  BY <1>1, <1>2, <1>3, <1>4 DEF Local

LEMMA StepKeepsTurns ==
  ASSUME RunnerInv, TurnsInv, [Next]_vars
  PROVE  TurnsInv'
<1>1. CASE UNCHANGED vars
  <2>1. UNCHANGED <<phase, held, tried, history, steady>>
    BY <1>1 DEF vars, reqVars
  <2>2. ASSUME NEW r \in Requests PROVE Turns(r)'
    <3>1. Attempted(r)' = Attempted(r) /\ Attempts(r)' = Attempts(r)
      BY <2>1 DEF Attempted, Attempts
    <3> QED
      BY <2>1, <3>1 DEF TurnsInv, Turns, InTurn
  <2> QED
    BY <2>1, <2>2 DEF TurnsInv
<1>2. CASE Next
  <2>1. Observe
    BY <1>2 DEF Next
  <2>2. ASSUME NEW r \in Requests, Arrive(r) PROVE TurnsInv'
    BY <2>1, <2>2, NoAttemptKeepsTurns DEF Arrive, loopVars, RunnerInv, Domains
  <2>3. ASSUME NEW r \in Requests, Local(r) PROVE TurnsInv'
    BY <2>1, <2>3, LocalKeepsTurns
  <2>4. ASSUME NEW r \in Requests, Upstream(r) PROVE TurnsInv'
    BY <2>1, <2>4, UpstreamKeepsTurns
  <2>5. ASSUME NEW r \in Requests, ClientLeaves(r) PROVE TurnsInv'
    BY <2>1, <2>5, NoAttemptKeepsTurns DEF ClientLeaves, loopVars
  <2>6. CASE Environment
    <3>1. UNCHANGED reqVars
      BY <2>6, EnvironmentMovesNoRequest
    <3> QED
      BY <2>1, <3>1, NoAttemptKeepsTurns DEF reqVars
  <2> QED
    BY <1>2, <2>2, <2>3, <2>4, <2>5, <2>6 DEF Next
<1> QED
  BY <1>1, <1>2

LEMMA InitHasTurns == Init => TurnsInv
<1> SUFFICES ASSUME Init PROVE TurnsInv
  OBVIOUS
<1>1. ASSUME NEW r \in Requests PROVE Turns(r)
  <2>1. Attempted(r) = {} /\ Attempts(r) = 0 /\ tried[r] = {} /\ steady[r] = {}
    BY DEF Init, Attempted, Attempts
  <2> QED
    BY <2>1, FS_EmptySet DEF Turns, InTurn
<1> QED
  BY <1>1 DEF Init, TurnsInv

\* A request comes back to an account only after it has tried every account
\* that was fit all along (retry.go:152-162).
THEOREM NobodyPassedOver == Spec => []NoAccountPassedOver
<1>1. RunnerInv /\ TurnsInv /\ [Next]_vars => RunnerInv' /\ TurnsInv'
  BY StepKeepsInv, StepKeepsTurns
<1>2. TurnsInv => NoAccountPassedOver
  <2> SUFFICES ASSUME TurnsInv, NEW r \in Requests,
                      Attempts(r) > Cardinality(Attempted(r))
               PROVE  steady[r] \subseteq Attempted(r)
    BY DEF NoAccountPassedOver
  <2>1. Turns(r) /\ Cardinality(Attempted(r)) \in Nat
    BY FS_CardinalityType DEF TurnsInv, Turns
  <2> QED
    BY <2>1 DEF Turns, InTurn
<1>3. Init => RunnerInv /\ TurnsInv
  BY InitHasInv, InitHasTurns
<1> QED
  BY <1>1, <1>2, <1>3, PTL DEF Spec
-----------------------------------------------------------------------------
(* Types.                                                                  *)

PoolTypes ==
  /\ accounts \in [AccountIDs -> Row(Nat, Balances) \cup {NoAccount}]
  /\ stats \in [AccountIDs -> Tracker]
  /\ now \in Nat /\ edits \in Nat

HeldTyped(r) ==
  phase[r] \in {"opening", "streaming"} => held[r] \in [id : AccountIDs, key : Nat]

RequestTypes ==
  /\ mode \in [Requests -> Modes]
  /\ tried \in [Requests -> SUBSET AccountIDs]
  /\ \A r \in Requests : HeldTyped(r)
  /\ ctxDone \in [Requests -> BOOLEAN]
  /\ steady \in [Requests -> SUBSET AccountIDs]

AllTyped == PoolTypes /\ RequestTypes

\* A bucket number is a natural.
LEMMA BucketTyped == \A t \in Nat : BucketOf(t) \in Nat
BY BucketDurationAssumption, DivisionBounds DEF BucketOf

LEMMA RollTyped ==
  ASSUME NEW rs \in Tracker, NEW t, BucketOf(t) \in Nat
  PROVE  rollLocked(rs, t) \in Tracker
<1> DEFINE cur == BucketOf(t)
<1>1. cur \in Nat
  OBVIOUS
<1> HIDE DEF cur
<1>2. CASE rs.head = NoHead
  <2>1. [rs EXCEPT !.head = cur] \in Tracker
    BY <1>1 DEF Tracker
  <2> QED
    BY <1>2, <2>1 DEF rollLocked, cur
<1>3. CASE rs.head # NoHead /\ cur <= rs.head
  BY <1>3 DEF rollLocked, cur
<1>4. CASE rs.head # NoHead /\ ~(cur <= rs.head)
  <2>1. rs.head \in Nat /\ rs.buckets \in [Slots -> Bucket]
    BY <1>4 DEF Tracker
  <2>2. cur - rs.head \in Nat /\ cur - rs.head > 0
    BY <1>1, <1>4, <2>1
  <2>3. ASSUME NEW n \in Nat PROVE Shifted(rs.buckets, n) \in [Slots -> Bucket]
    <3>1. EmptyBucket \in Bucket
      BY DEF EmptyBucket, Bucket
    <3>2. \A i \in Slots : ~(i < n) => i - n \in Slots
      BY BucketCountAssumption DEF Slots
    <3> QED
      BY <2>1, <3>1, <3>2 DEF Shifted
  <2>4. [head |-> cur, buckets |-> Shifted(rs.buckets, cur - rs.head)] \in Tracker
    BY <1>1, <2>2, <2>3 DEF Tracker
  <2> QED
    BY <1>4, <2>4 DEF rollLocked, cur
<1> QED
  BY <1>2, <1>3, <1>4

LEMMA RecordTyped ==
  ASSUME NEW rs \in Tracker, NEW t \in Nat, NEW success \in BOOLEAN
  PROVE  Record(rs, t, success) \in Tracker
<1> DEFINE rolled == rollLocked(rs, t)
<1>1. rolled \in Tracker
  BY BucketTyped, RollTyped
<1> HIDE DEF rolled
<1>2. 0 \in Slots
  BY BucketCountAssumption DEF Slots
<1>3. \A b \in Bucket : Count(b, success) \in Bucket
  BY DEF Count, Bucket
<1>4. Count(rolled.buckets[0], success) \in Bucket
  BY <1>1, <1>2, <1>3 DEF Tracker
<1>5. [rolled EXCEPT !.buckets[0] = Count(@, success)] \in Tracker
  BY <1>1, <1>2, <1>4 DEF Tracker
<1> QED
  BY <1>5 DEF Record, rolled

LEMMA StatsTyped ==
  ASSUME PoolTypes
  PROVE  /\ \A ids : Rolled(stats, ids, now) \in [AccountIDs -> Tracker]
         /\ \A id : \A success \in BOOLEAN :
              Mark(stats, id, now, success) \in [AccountIDs -> Tracker]
<1>1. \A a \in AccountIDs : rollLocked(stats[a], now) \in Tracker
  BY BucketTyped, RollTyped DEF PoolTypes
<1>2. \A a \in AccountIDs : \A success \in BOOLEAN :
        Record(stats[a], now, success) \in Tracker
  BY RecordTyped DEF PoolTypes
<1> QED
  BY <1>1, <1>2 DEF PoolTypes, Rolled, Mark

LEMMA SteadyTyped ==
  ASSUME Observe, RequestTypes
  PROVE  steady' \in [Requests -> SUBSET AccountIDs]
<1>1. Healthy' \subseteq AccountIDs
  BY DEF Healthy, Candidates, Consulted
<1> QED
  BY <1>1 DEF Observe, RequestTypes

\* A row is replaced by a row.
LEMMA EditTyped ==
  ASSUME PoolTypes, NEW a \in AccountIDs,
         NEW row \in Row(Nat, Balances) \cup {NoAccount}, Edit(a, row)
  PROVE  PoolTypes'
BY DEF PoolTypes, Edit

LEMMA EnvironmentTyped ==
  ASSUME PoolTypes, Environment
  PROVE  PoolTypes'
<1>1. \A a \in AccountIDs :
        accounts[a] # NoAccount => accounts[a] \in Row(Nat, Balances)
  BY DEF PoolTypes
<1>2. ASSUME NEW a \in AccountIDs, NEW paused \in BOOLEAN, SetPaused(a, paused)
      PROVE  PoolTypes'
  <2>1. [accounts[a] EXCEPT !.paused = paused] \in Row(Nat, Balances)
    BY <1>1, <1>2 DEF SetPaused, Row
  <2> QED
    BY <1>2, <2>1, EditTyped DEF SetPaused
<1>3. ASSUME NEW a \in AccountIDs, DeleteAccount(a) PROVE PoolTypes'
  BY <1>3, EditTyped DEF DeleteAccount
<1>4. ASSUME NEW a \in AccountIDs, NEW credits \in Balances, SetCredits(a, credits)
      PROVE  PoolTypes'
  <2>1. [accounts[a] EXCEPT !.credits = credits] \in Row(Nat, Balances)
    BY <1>1, <1>4 DEF SetCredits, Row
  <2> QED
    BY <1>4, <2>1, EditTyped DEF SetCredits
<1>5. ASSUME NEW a \in AccountIDs, NEW credits \in Balances \cup {Unknown},
             AddAccount(a, credits)
      PROVE  PoolTypes'
  <2>1. CASE accounts[a] = NoAccount
    <3>1. [key |-> 1, paused |-> FALSE, credits |-> credits] \in Row(Nat, Balances)
      BY <1>5 DEF Row
    <3> QED
      BY <1>5, <2>1, <3>1, EditTyped DEF AddAccount
  <2>2. CASE accounts[a] # NoAccount
    <3> DEFINE row == [accounts[a] EXCEPT
                         !.key = @ + 1,
                         !.credits = IF credits = Unknown THEN @ ELSE credits]
    <3>1. row \in Row(Nat, Balances)
      <4> DEFINE acc == accounts[a]
                 balance == IF credits = Unknown THEN acc.credits ELSE credits
      <4>1. acc \in [key : Nat, paused : BOOLEAN, credits : Balances \cup {Unknown}]
        BY <1>1, <2>2 DEF Row
      <4>2. acc.key + 1 \in Nat /\ balance \in Balances \cup {Unknown}
        BY <4>1
      <4> HIDE DEF acc, balance
      <4>3. [acc EXCEPT !.key = @ + 1, !.credits = balance] \in Row(Nat, Balances)
        BY <4>1, <4>2 DEF Row
      <4> QED
        BY <4>3 DEF acc, balance
    <3>2. Edit(a, row)
      BY <1>5, <2>2 DEF AddAccount
    <3> HIDE DEF row
    <3> QED
      BY <3>1, <3>2, EditTyped
  <2> QED
    BY <2>1, <2>2
<1>6. CASE Tick
  BY <1>6 DEF PoolTypes, Tick
<1> QED
  BY <1>2, <1>3, <1>4, <1>5, <1>6 DEF Environment

LEMMA PickSomeTyped ==
  ASSUME AllTyped, RunnerInv, Observe, NEW r \in Requests, PickSome(r)
  PROVE  AllTyped'
<1> DEFINE candidates == Candidates(accounts, stats, now, tried[r])
           id == Choice(candidates, Hash[r])
<1>1. /\ candidates # {}
      /\ stats' = Rolled(stats, Consulted(accounts, tried[r]), now)
      /\ tried' = [tried EXCEPT ![r] = @ \cup {id}]
      /\ held' = [held EXCEPT ![r] = [id |-> id, key |-> accounts[id].key]]
      /\ phase' = [phase EXCEPT ![r] = "opening"]
      /\ UNCHANGED <<accounts, now, edits, mode, ctxDone>>
  BY DEF PickSome, Exclude
<1>2. id \in AccountIDs /\ accounts[id] # NoAccount
  <2>1. candidates \in SUBSET AccountIDs
    BY DEF Candidates, Consulted
  <2>2. id \in candidates
    BY <1>1, <2>1, HashAssumption, ChoiceIsCandidate
  <2> QED
    BY <2>2 DEF Candidates, Consulted
<1> HIDE DEF candidates, id
<1>3. PoolTypes'
  <2>1. stats' \in [AccountIDs -> Tracker]
    BY <1>1, StatsTyped DEF AllTyped
  <2> QED
    BY <1>1, <2>1 DEF AllTyped, PoolTypes
<1>4. \A q \in Requests : HeldTyped(q)'
  <2>1. [id |-> id, key |-> accounts[id].key] \in [id : AccountIDs, key : Nat]
    BY <1>2 DEF AllTyped, PoolTypes, Row
  <2>2. HeldTyped(r)'
    BY <1>1, <2>1 DEF HeldTyped, RunnerInv, Domains
  <2>3. \A q \in Requests \ {r} : HeldTyped(q)'
    BY <1>1 DEF HeldTyped, RunnerInv, Domains, AllTyped, RequestTypes
  <2> QED
    BY <2>2, <2>3
<1>5. tried' \in [Requests -> SUBSET AccountIDs]
  BY <1>1, <1>2 DEF AllTyped, RequestTypes
<1>6. RequestTypes'
  BY <1>1, <1>4, <1>5, SteadyTyped DEF AllTyped, RequestTypes
<1> QED
  BY <1>3, <1>6 DEF AllTyped

LEMMA PickNoneTyped ==
  ASSUME AllTyped, RunnerInv, Observe, NEW r \in Requests, PickNone(r)
  PROVE  AllTyped'
<1>1. /\ stats' = Rolled(stats, Consulted(accounts, tried[r]), now)
      /\ tried' = [tried EXCEPT ![r] = {}]
      /\ UNCHANGED <<accounts, now, edits, mode, held, ctxDone>>
      /\ phase' = phase \/ phase' = [phase EXCEPT ![r] = "done"]
  BY DEF PickNone, RecordFailure
<1>2. PoolTypes'
  <2>1. stats' \in [AccountIDs -> Tracker]
    BY <1>1, StatsTyped DEF AllTyped
  <2> QED
    BY <1>1, <2>1 DEF AllTyped, PoolTypes
<1>3. \A q \in Requests : HeldTyped(q)'
  BY <1>1 DEF HeldTyped, RunnerInv, Domains, AllTyped, RequestTypes
<1>4. RequestTypes'
  BY <1>1, <1>3, SteadyTyped DEF AllTyped, RequestTypes
<1> QED
  BY <1>2, <1>4 DEF AllTyped

\* A step that picks no account, and may count an outcome.
LEMMA OtherStepTyped ==
  ASSUME AllTyped, RunnerInv, Observe, NEW r \in Requests, NEW next \in Phases,
         phase' = [phase EXCEPT ![r] = next],
         next = "opening" => phase[r] = "opening",
         next = "streaming" => phase[r] \in {"opening", "streaming"},
         \/ stats' = stats
         \/ \E success \in BOOLEAN : stats' = Mark(stats, held[r].id, now, success),
         UNCHANGED <<accounts, now, edits, mode, tried, held>>,
         ctxDone' = ctxDone \/ ctxDone' = [ctxDone EXCEPT ![r] = TRUE]
  PROVE  AllTyped'
<1>1. PoolTypes'
  <2>1. stats' \in [AccountIDs -> Tracker]
    BY StatsTyped DEF AllTyped, PoolTypes
  <2> QED
    BY <2>1 DEF AllTyped, PoolTypes
<1>2. \A q \in Requests : HeldTyped(q)'
  BY DEF HeldTyped, RunnerInv, Domains, AllTyped, RequestTypes
<1>3. RequestTypes'
  BY <1>2, SteadyTyped DEF AllTyped, RequestTypes
<1> QED
  BY <1>1, <1>3 DEF AllTyped

LEMMA ResultsTyped ==
  ASSUME AllTyped, RunnerInv, Observe, NEW r \in Requests, phase[r] = "opening",
         UNCHANGED <<accounts, now, edits, mode, tried, held, ctxDone>>,
         NEW class, NEW err, TryAgain(r, class, err) \/ GiveUp(r, class, err)
  PROVE  AllTyped'
<1>1. \/ stats' = stats
      \/ \E success \in BOOLEAN : stats' = Mark(stats, held[r].id, now, success)
  BY DEF TryAgain, GiveUp, markError
<1>2. PICK next \in {"backoff", "done"} : phase' = [phase EXCEPT ![r] = next]
  BY DEF TryAgain, GiveUp, RecordFailure
<1>3. next \in Phases /\ next \notin {"opening", "streaming"}
  BY <1>2 DEF Phases
<1> QED
  BY <1>1, <1>2, <1>3, OtherStepTyped

LEMMA UpstreamTyped ==
  ASSUME AllTyped, RunnerInv, Observe, NEW r \in Requests, Upstream(r)
  PROVE  AllTyped'
<1>1. ASSUME NEW err \in OpenErrors, OpenFails(r, err) \/ ReadFails(r, err)
      PROVE  AllTyped'
  <2> DEFINE class == classifyOpenError(err)
  <2>1. /\ phase[r] = "opening"
        /\ UNCHANGED <<accounts, now, edits, mode, tried, held, ctxDone>>
        /\ TryAgain(r, class, err) \/ GiveUp(r, class, err)
    BY <1>1 DEF OpenFails, ReadFails
  <2> HIDE DEF class
  <2> QED
    BY <2>1, ResultsTyped
<1>2. CASE EndsEarly(r)
  BY <1>2, ResultsTyped DEF EndsEarly
<1>3. ASSUME NEW frame \in Frames, ErrorFrame(r, frame) PROVE AllTyped'
  <2> DEFINE class == classifyStreamError(frame)
  <2>1. /\ phase[r] = "opening"
        /\ UNCHANGED <<accounts, now, edits, mode, tried, held, ctxDone>>
        /\ \/ TryAgain(r, class, BareError)
           \/ GiveUp(r, class, streamErrorToAPIError(frame))
    BY <1>3 DEF ErrorFrame
  <2> HIDE DEF class
  <2> QED
    BY <2>1, ResultsTyped
<1>4. CASE Opened(r)
  <2>1. /\ phase[r] = "opening" /\ phase' = [phase EXCEPT ![r] = "streaming"]
        /\ stats' = Mark(stats, held[r].id, now, TRUE)
        /\ UNCHANGED <<accounts, now, edits, mode, tried, held, ctxDone>>
    BY <1>4 DEF Opened, loopVars
  <2> QED
    BY <2>1, OtherStepTyped DEF Phases
<1>5. ASSUME NEW broken \in BOOLEAN, NEW looksLikeClient \in BOOLEAN,
             Responded(r, broken, looksLikeClient)
      PROVE  AllTyped'
  <2>1. /\ phase' = [phase EXCEPT ![r] = "done"]
        /\ UNCHANGED <<accounts, stats, now, edits, mode, tried, held, ctxDone>>
    BY <1>5 DEF Responded, loopVars, poolVars
  <2> QED
    BY <2>1, OtherStepTyped DEF Phases
<1> QED
  BY <1>1, <1>2, <1>3, <1>4, <1>5 DEF Upstream

LEMMA StepTyped ==
  ASSUME AllTyped, RunnerInv, [Next]_vars
  PROVE  AllTyped'
<1>1. CASE UNCHANGED vars
  BY <1>1 DEF vars, poolVars, reqVars, AllTyped, PoolTypes, RequestTypes, HeldTyped
<1>2. CASE Next
  <2>1. Observe
    BY <1>2 DEF Next
  <2>2. ASSUME NEW r \in Requests,
               Arrive(r) \/ BackoffElapsed(r) \/ BackoffCancelled(r)
        PROVE  AllTyped'
    <3>1. PICK next \in {"picking", "done"} : phase' = [phase EXCEPT ![r] = next]
      BY <2>2 DEF Arrive, BackoffElapsed, BackoffCancelled, RecordFailure
    <3>2. UNCHANGED <<accounts, stats, now, edits, mode, tried, held, ctxDone>>
      BY <2>2 DEF Arrive, BackoffElapsed, BackoffCancelled, loopVars, poolVars
    <3>3. next \in Phases /\ next \notin {"opening", "streaming"}
      BY <3>1 DEF Phases
    <3> QED
      BY <2>1, <3>1, <3>2, <3>3, OtherStepTyped
  <2>3. ASSUME NEW r \in Requests, PickSome(r) \/ PickNone(r) PROVE AllTyped'
    BY <2>1, <2>3, PickSomeTyped, PickNoneTyped
  <2>4. ASSUME NEW r \in Requests, Upstream(r) PROVE AllTyped'
    BY <2>1, <2>4, UpstreamTyped
  <2>5. ASSUME NEW r \in Requests, ClientLeaves(r) PROVE AllTyped'
    <3>1. /\ ctxDone' = [ctxDone EXCEPT ![r] = TRUE]
          /\ UNCHANGED <<accounts, stats, now, edits, phase, mode, tried, held>>
      BY <2>5 DEF ClientLeaves, loopVars, poolVars
    <3>2. phase' = [phase EXCEPT ![r] = phase[r]] /\ phase[r] \in Phases
      BY <3>1 DEF RunnerInv, Domains
    <3> QED
      BY <2>1, <3>1, <3>2, OtherStepTyped
  <2>6. CASE Environment
    <3>1. UNCHANGED <<phase, mode, tried, held, ctxDone>>
      BY <2>6, EnvironmentMovesNoRequest DEF reqVars
    <3>2. RequestTypes'
      BY <2>1, <3>1, SteadyTyped DEF AllTyped, RequestTypes, HeldTyped
    <3>3. PoolTypes'
      BY <2>6, EnvironmentTyped DEF AllTyped
    <3> QED
      BY <3>2, <3>3 DEF AllTyped
  <2> QED
    BY <1>2, <2>2, <2>3, <2>4, <2>5, <2>6 DEF Next, Local
<1> QED
  BY <1>1, <1>2

LEMMA InitTyped == Init => AllTyped
<1> SUFFICES ASSUME Init PROVE AllTyped
  OBVIOUS
<1>1. NewRollingStats \in Tracker
  BY DEF NewRollingStats, Tracker, Bucket, EmptyBucket
<1>2. PoolTypes
  BY <1>1, InitAccountsAssumption DEF Init, PoolTypes
<1>3. RequestTypes
  BY DEF Init, RequestTypes, HeldTyped
<1> QED
  BY <1>2, <1>3 DEF AllTyped

\* Types are kept; an attempt is one of the three of retryBackoffs, and a
\* request is opened only on an account Pick returned (retry.go:136-170).
THEOREM RunnerTyped == Spec => []TypeOK
<1>1. Init => RunnerInv /\ AllTyped
  BY InitHasInv, InitTyped
<1>2. RunnerInv /\ AllTyped /\ [Next]_vars => RunnerInv' /\ AllTyped'
  BY StepKeepsInv, StepTyped
<1>3. RunnerInv /\ AllTyped => TypeOK
  BY DEF RunnerInv, Domains, AllTyped, PoolTypes, RequestTypes, HeldTyped, TypeOK
<1> QED
  BY <1>1, <1>2, <1>3, PTL DEF Spec
-----------------------------------------------------------------------------
(* The pool's counters and the attempts that ended.                        *)

Counter(errs, c) == IF errs THEN c.errs ELSE c.reqs

Classed(errs) == IF errs THEN {"account"} ELSE {"ok", "account"}

\* The attempts that ended, as places of a history h.
Past(h, x) == h[x[1]][x[2]]
Ended(h) == {x \in Requests \X (1 .. MaxAttempts) : x[2] \in DOMAIN h[x[1]]}

\* Those that one of the counters of account a is to count, and of them those
\* that ended during bucket b.
Counts(e, a, errs) == e.id = a /\ e.class \in Classed(errs)
Counted(h, a, errs) == {x \in Ended(h) : Counts(Past(h, x), a, errs)}
InBucket(h, a, errs, b) == {x \in Counted(h, a, errs) : BucketOf(Past(h, x).at) = b}

\* A tracker t counts the attempts of h on account a.
Reflects(t, h, a) ==
  \A errs \in BOOLEAN :
    /\ \A x \in Counted(h, a, errs) : BucketOf(Past(h, x).at) <= t.head
    /\ \A i \in Slots :
         Counter(errs, t.buckets[i]) = Cardinality(InBucket(h, a, errs, t.head - i))

\* A history of finitely many attempts that ended at instants of the clock.
EndedTyped(h) ==
  /\ IsFiniteSet(Ended(h))
  /\ \A x \in Ended(h) : BucketOf(Past(h, x).at) \in Nat

\* Every tracker counts the attempts on its account and is not ahead of the
\* clock.
StatsInv ==
  /\ EndedTyped(history)
  /\ \A a \in AccountIDs : stats[a].head <= BucketOf(now) /\ Reflects(stats[a], history, a)

\* Rolling a tracker forward leaves it counting the same attempts
\* (health.go:85-109).
LEMMA RollReflects ==
  ASSUME NEW t \in Tracker, NEW n, BucketOf(n) \in Nat, t.head <= BucketOf(n),
         NEW h, NEW a, EndedTyped(h), Reflects(t, h, a)
  PROVE  /\ rollLocked(t, n).head = BucketOf(n)
         /\ Reflects(rollLocked(t, n), h, a)
<1> DEFINE cur == BucketOf(n)
           u == rollLocked(t, n)
           At(x) == BucketOf(Past(h, x).at)
<1>1. /\ t = [head |-> t.head, buckets |-> t.buckets]
      /\ t.head \in Nat \cup {NoHead} /\ t.buckets \in [Slots -> Bucket]
  BY DEF Tracker
<1>2. \A errs \in BOOLEAN : \A x \in Counted(h, a, errs) : At(x) \in Nat /\ At(x) <= t.head
  BY DEF Reflects, Counted, EndedTyped
<1>3. Slots \subseteq Nat
  BY DEF Slots
<1> HIDE DEF At
<1>4. CASE t.head = NoHead
  <2>1. u = [head |-> cur, buckets |-> t.buckets]
    BY <1>1, <1>4 DEF rollLocked
  <2>2. \A errs \in BOOLEAN : Counted(h, a, errs) = {}
    BY <1>2, <1>4 DEF NoHead
  <2>3. \A b : \A errs \in BOOLEAN : InBucket(h, a, errs, b) = {}
    BY <2>2 DEF InBucket
  <2>4. \A errs \in BOOLEAN : \A i \in Slots : Counter(errs, t.buckets[i]) = Cardinality({})
    BY <2>3 DEF Reflects
  <2>5. u.head = cur /\ u.buckets = t.buckets
    BY <2>1
  <2> HIDE DEF u, cur
  <2>6. ASSUME NEW errs \in BOOLEAN
        PROVE  /\ \A x \in Counted(h, a, errs) : BucketOf(Past(h, x).at) <= u.head
               /\ \A i \in Slots :
                    Counter(errs, u.buckets[i]) = Cardinality(InBucket(h, a, errs, u.head - i))
    BY <2>2, <2>3, <2>4, <2>5
  <2> QED
    BY <2>5, <2>6 DEF Reflects, u, cur
<1>5. CASE t.head # NoHead /\ cur <= t.head
  BY <1>1, <1>5 DEF rollLocked
<1>6. CASE t.head # NoHead /\ ~(cur <= t.head)
  <2> DEFINE s == cur - t.head
  <2>1. t.head \in Nat /\ s \in Nat /\ s > 0 /\ cur = t.head + s
    BY <1>1, <1>6
  <2>2. u = [head |-> cur, buckets |-> Shifted(t.buckets, s)]
    BY <1>6 DEF rollLocked
  <2> HIDE DEF s, cur, u
  <2>3. ASSUME NEW errs \in BOOLEAN, NEW x \in Counted(h, a, errs)
        PROVE  At(x) <= cur
    BY <1>2, <2>1, <2>3
  <2>4. ASSUME NEW errs \in BOOLEAN, NEW i \in Slots
        PROVE  Counter(errs, Shifted(t.buckets, s)[i]) = Cardinality(InBucket(h, a, errs, cur - i))
    <3>1. CASE i < s
      <4>1. InBucket(h, a, errs, cur - i) = {}
        <5>1. ASSUME NEW x \in Counted(h, a, errs) PROVE At(x) # cur - i
          <6>1. cur - i > t.head
            BY <1>3, <2>1, <3>1
          <6>2. At(x) \in Nat /\ At(x) <= t.head
            BY <1>2
          <6> QED
            BY <2>1, <6>1, <6>2
        <5> QED
          BY <5>1 DEF InBucket, At
      <4>2. Shifted(t.buckets, s)[i] = EmptyBucket
        BY <3>1 DEF Shifted
      <4>3. Counter(errs, EmptyBucket) = 0
        BY DEF Counter, EmptyBucket
      <4> QED
        BY <4>1, <4>2, <4>3, FS_EmptySet
    <3>2. CASE ~(i < s)
      <4>1. i - s \in Slots /\ cur - i = t.head - (i - s)
        BY <1>3, <2>1, <3>2, BucketCountAssumption DEF Slots
      <4>2. Shifted(t.buckets, s)[i] = t.buckets[i - s]
        BY <3>2 DEF Shifted
      <4>3. Counter(errs, t.buckets[i - s])
              = Cardinality(InBucket(h, a, errs, t.head - (i - s)))
        BY <4>1 DEF Reflects
      <4> QED
        BY <4>1, <4>2, <4>3
    <3> QED
      BY <3>1, <3>2
  <2>5. u.head = cur /\ u.buckets = Shifted(t.buckets, s)
    BY <2>2
  <2>6. Reflects(u, h, a)
    BY <2>3, <2>4, <2>5 DEF Reflects, At
  <2> QED
    BY <2>5, <2>6 DEF u, cur
<1> QED
  BY <1>4, <1>5, <1>6

\* What an attempt that ends adds to the history, and where.
Extend(h, r, e) == [h EXCEPT ![r] = Append(@, e)]
NextPlace(h, r) == <<r, Len(h[r]) + 1>>

\* An attempt that ends becomes the last place of its request.
LEMMA EndedAfter ==
  ASSUME NEW h, DOMAIN h = Requests, NEW r \in Requests, IsSeq(h[r]),
         Len(h[r]) < MaxAttempts, NEW e
  PROVE  /\ NextPlace(h, r) \notin Ended(h)
         /\ Ended(Extend(h, r, e)) = Ended(h) \cup {NextPlace(h, r)}
         /\ Past(Extend(h, r, e), NextPlace(h, r)) = e
         /\ \A x \in Ended(h) : Past(Extend(h, r, e), x) = Past(h, x)
<1> DEFINE n == Len(h[r])
           h2 == Extend(h, r, e)
           p == <<r, n + 1>>
<1>1. /\ n \in Nat /\ IsSeq(h2[r]) /\ Len(h2[r]) = n + 1
      /\ \A i \in 1 .. n : h2[r][i] = h[r][i]
      /\ h2[r][n + 1] = e
      /\ \A q \in Requests \ {r} : h2[q] = h[q]
  <2>1. /\ IsSeq(Append(h[r], e)) /\ n \in Nat /\ Len(Append(h[r], e)) = n + 1
        /\ \A i \in 1 .. n : Append(h[r], e)[i] = h[r][i]
        /\ Append(h[r], e)[n + 1] = e
    BY AppendToAny
  <2>2. h2[r] = Append(h[r], e)
    BY DEF Extend
  <2>3. \A q \in Requests \ {r} : h2[q] = h[q]
    BY DEF Extend
  <2> QED
    BY <2>1, <2>2, <2>3
<1>2. DOMAIN h[r] = 1 .. n /\ DOMAIN h2[r] = 1 .. n + 1
  BY <1>1 DEF IsSeq
<1>3. n + 1 \in 1 .. MaxAttempts /\ n + 1 \notin 1 .. n
  BY <1>1 DEF MaxAttempts
<1>4. \A i : i \in 1 .. n + 1 <=> i \in 1 .. n \/ i = n + 1
  BY <1>1
<1> HIDE DEF n, h2
<1>5. p[1] = r /\ p[2] = n + 1 /\ p \in Requests \X (1 .. MaxAttempts)
  BY <1>3
<1>6. p \notin Ended(h)
  BY <1>2, <1>3, <1>5 DEF Ended
<1>7. ASSUME NEW x \in Requests \X (1 .. MaxAttempts)
      PROVE  x \in Ended(h2) <=> x \in Ended(h) \/ x = p
  <2>1. x = <<x[1], x[2]>> /\ x[1] \in Requests
    OBVIOUS
  <2>2. CASE x[1] = r
    BY <1>2, <1>4, <1>5, <2>1, <2>2 DEF Ended
  <2>3. CASE x[1] # r
    BY <1>1, <1>5, <2>1, <2>3 DEF Ended
  <2> QED
    BY <2>2, <2>3
<1>8. Ended(h2) = Ended(h) \cup {p}
  BY <1>5, <1>7 DEF Ended
<1>9. Past(h2, p) = e
  BY <1>1, <1>5 DEF Past
<1>10. ASSUME NEW x \in Ended(h) PROVE Past(h2, x) = Past(h, x)
  <2>1. x[1] \in Requests /\ x[2] \in DOMAIN h[x[1]]
    BY DEF Ended
  <2>2. CASE x[1] = r
    BY <1>1, <1>2, <2>1, <2>2 DEF Past
  <2>3. CASE x[1] # r
    BY <1>1, <2>1, <2>3 DEF Past
  <2> QED
    BY <2>2, <2>3
<1> QED
  BY <1>6, <1>8, <1>9, <1>10 DEF n, h2, NextPlace

\* It counts at most once, for its account and in its bucket.
LEMMA CountedAfter ==
  ASSUME NEW h, DOMAIN h = Requests, NEW r \in Requests, IsSeq(h[r]),
         Len(h[r]) < MaxAttempts, NEW e,
         EndedTyped(h), BucketOf(e.at) \in Nat
  PROVE  /\ EndedTyped(Extend(h, r, e))
         /\ \A a : \A errs \in BOOLEAN :
              /\ \A x \in Counted(Extend(h, r, e), a, errs) :
                   \/ x \in Counted(h, a, errs) /\ Past(Extend(h, r, e), x) = Past(h, x)
                   \/ Counts(e, a, errs) /\ Past(Extend(h, r, e), x) = e
              /\ \A b : Cardinality(InBucket(Extend(h, r, e), a, errs, b)) =
                          Cardinality(InBucket(h, a, errs, b))
                            + IF Counts(e, a, errs) /\ BucketOf(e.at) = b THEN 1 ELSE 0
<1> DEFINE p == NextPlace(h, r)
           h2 == Extend(h, r, e)
<1>1. /\ p \notin Ended(h)
      /\ Ended(h2) = Ended(h) \cup {p}
      /\ Past(h2, p) = e
      /\ \A x \in Ended(h) : Past(h2, x) = Past(h, x)
  BY EndedAfter
<1> HIDE DEF p, h2
<1>2. EndedTyped(h2)
  <2>1. IsFiniteSet(Ended(h2))
    BY <1>1, FS_AddElement DEF EndedTyped
  <2> QED
    BY <1>1, <2>1 DEF EndedTyped
<1>3. ASSUME NEW a, NEW errs \in BOOLEAN
      PROVE  /\ \A x \in Counted(h2, a, errs) :
                  \/ x \in Counted(h, a, errs) /\ Past(h2, x) = Past(h, x)
                  \/ Counts(e, a, errs) /\ Past(h2, x) = e
             /\ \A b : Cardinality(InBucket(h2, a, errs, b)) =
                         Cardinality(InBucket(h, a, errs, b))
                           + IF Counts(e, a, errs) /\ BucketOf(e.at) = b THEN 1 ELSE 0
  <2> DEFINE counts == Counts(e, a, errs)
  <2>1. \A x \in Ended(h2) :
          x \in Counted(h2, a, errs) <=> x \in Counted(h, a, errs) \/ (x = p /\ counts)
    BY <1>1 DEF Counted, Counts
  <2>2. /\ \A x \in Counted(h, a, errs) : x \in Ended(h) /\ x \in Ended(h2) /\ x # p
        /\ \A x \in Counted(h2, a, errs) : x \in Ended(h2)
        /\ p \in Ended(h2)
    BY <1>1 DEF Counted
  <2> HIDE DEF counts
  <2>3. \A x \in Counted(h2, a, errs) :
          \/ x \in Counted(h, a, errs) /\ Past(h2, x) = Past(h, x)
          \/ counts /\ Past(h2, x) = e
    BY <1>1, <2>1, <2>2
  <2>4. ASSUME NEW b
        PROVE  Cardinality(InBucket(h2, a, errs, b)) =
                 Cardinality(InBucket(h, a, errs, b))
                   + IF counts /\ BucketOf(e.at) = b THEN 1 ELSE 0
    <3> DEFINE S == InBucket(h, a, errs, b)
               T == InBucket(h2, a, errs, b)
    <3>1. IsFiniteSet(S) /\ p \notin S
      <4>1. S \in SUBSET Ended(h)
        BY DEF InBucket, Counted
      <4> HIDE DEF S
      <4> QED
        BY <1>1, <4>1, FS_Subset DEF EndedTyped
    <3>2. Cardinality(S) \in Nat
      BY <3>1, FS_CardinalityType
    <3>3. CASE counts /\ BucketOf(e.at) = b
      <4>1. T = S \cup {p}
        BY <1>1, <2>1, <2>2, <3>3 DEF InBucket
      <4> HIDE DEF S, T
      <4>2. Cardinality(S \cup {p}) = Cardinality(S) + 1
        BY <3>1, FS_AddElement
      <4>3. Cardinality(T) = Cardinality(S) + 1
        BY <4>1, <4>2
      <4> QED
        BY <3>3, <4>3 DEF S, T
    <3>4. CASE ~(counts /\ BucketOf(e.at) = b)
      <4>1. T = S
        BY <1>1, <2>1, <2>2, <3>4 DEF InBucket
      <4> HIDE DEF S, T
      <4>2. Cardinality(T) = Cardinality(S) + 0
        BY <3>2, <4>1
      <4> QED
        BY <3>4, <4>2 DEF S, T
    <3> QED
      BY <3>3, <3>4
  <2> QED
    BY <2>3, <2>4 DEF counts
<1> QED
  BY <1>2, <1>3 DEF h2

\* The attempt counts for another account or not at all.
LEMMA ReflectsStill ==
  ASSUME NEW t \in Tracker, NEW a, NEW h, DOMAIN h = Requests, NEW r \in Requests,
         IsSeq(h[r]), Len(h[r]) < MaxAttempts, NEW e, EndedTyped(h),
         BucketOf(e.at) \in Nat, Reflects(t, h, a),
         \A errs \in BOOLEAN : ~Counts(e, a, errs)
  PROVE  Reflects(t, Extend(h, r, e), a)
<1> DEFINE h2 == Extend(h, r, e)
<1>1. ASSUME NEW errs \in BOOLEAN
      PROVE  /\ \A x \in Counted(h2, a, errs) :
                  x \in Counted(h, a, errs) /\ Past(h2, x) = Past(h, x)
             /\ \A b : Cardinality(InBucket(h2, a, errs, b)) =
                         Cardinality(InBucket(h, a, errs, b)) + 0
  BY CountedAfter
<1>2. \A errs \in BOOLEAN : \A b : Cardinality(InBucket(h, a, errs, b)) \in Nat
  <2> SUFFICES ASSUME NEW errs \in BOOLEAN, NEW b
               PROVE  Cardinality(InBucket(h, a, errs, b)) \in Nat
    OBVIOUS
  <2>1. InBucket(h, a, errs, b) \in SUBSET Ended(h)
    BY DEF InBucket, Counted
  <2> QED
    BY <2>1, FS_Subset, FS_CardinalityType DEF EndedTyped
<1> HIDE DEF h2
<1>3. \A errs \in BOOLEAN : \A b : Cardinality(InBucket(h2, a, errs, b)) =
                                     Cardinality(InBucket(h, a, errs, b))
  BY <1>1, <1>2
<1>4. Reflects(t, h2, a)
  BY <1>1, <1>3 DEF Reflects
<1> QED
  BY <1>4 DEF h2

\* A Count adds a request, and an error unless it was a success.
LEMMA CountAdds ==
  ASSUME NEW c \in Bucket, NEW success \in BOOLEAN, NEW errs \in BOOLEAN
  PROVE  /\ Counter(errs, c) \in Nat
         /\ Counter(errs, Count(c, success)) =
              Counter(errs, c) + IF errs /\ success THEN 0 ELSE 1
BY DEF Bucket, Count, Counter

\* A Record counts the attempt that ends now (health.go:49-57).
LEMMA RecordReflects ==
  ASSUME NEW t \in Tracker, NEW a, NEW h, DOMAIN h = Requests, NEW r \in Requests,
         IsSeq(h[r]), Len(h[r]) < MaxAttempts, NEW e, EndedTyped(h),
         BucketOf(e.at) \in Nat, t.head <= BucketOf(e.at), Reflects(t, h, a),
         NEW success \in BOOLEAN,
         \A errs \in BOOLEAN : Counts(e, a, errs) <=> ~(errs /\ success)
  PROVE  /\ Record(t, e.at, success).head = BucketOf(e.at)
         /\ Reflects(Record(t, e.at, success), Extend(h, r, e), a)
<1> DEFINE h2 == Extend(h, r, e)
           cur == BucketOf(e.at)
           u == rollLocked(t, e.at)
           v == Record(t, e.at, success)
<1>1. u.head = cur /\ Reflects(u, h, a)
  BY RollReflects
<1>2. u \in [head : Int, buckets : [Slots -> Bucket]]
  <2>1. u \in Tracker
    BY RollTyped
  <2> QED
    BY <2>1 DEF Tracker, NoHead
<1>3. 0 \in Slots /\ Slots \subseteq Nat
  BY BucketCountAssumption DEF Slots
<1>4. /\ v.head = cur
      /\ \A i \in Slots : v.buckets[i] = IF i = 0 THEN Count(u.buckets[0], success)
                                                  ELSE u.buckets[i]
  BY <1>1, <1>2, <1>3 DEF Record
<1>5. \A errs \in BOOLEAN : Counts(e, a, errs) <=> ~(errs /\ success)
  OBVIOUS
<1> HIDE DEF u, v, cur
<1>6. ASSUME NEW errs \in BOOLEAN
      PROVE  /\ \A x \in Counted(h2, a, errs) :
                  \/ x \in Counted(h, a, errs) /\ Past(h2, x) = Past(h, x)
                  \/ Counts(e, a, errs) /\ Past(h2, x) = e
             /\ \A b : Cardinality(InBucket(h2, a, errs, b)) =
                         Cardinality(InBucket(h, a, errs, b))
                           + IF Counts(e, a, errs) /\ BucketOf(e.at) = b THEN 1 ELSE 0
  BY CountedAfter
<1> HIDE DEF h2
<1>7. ASSUME NEW errs \in BOOLEAN, NEW x \in Counted(h2, a, errs)
      PROVE  BucketOf(Past(h2, x).at) <= cur
  <2>1. CASE x \in Counted(h, a, errs) /\ Past(h2, x) = Past(h, x)
    BY <1>1, <2>1 DEF Reflects
  <2>2. CASE Past(h2, x) = e
    BY <2>2 DEF cur
  <2> QED
    BY <1>6, <2>1, <2>2
<1>8. ASSUME NEW errs \in BOOLEAN, NEW i \in Slots
      PROVE  Counter(errs, v.buckets[i]) = Cardinality(InBucket(h2, a, errs, cur - i))
  <2>1. /\ Counter(errs, u.buckets[i]) = Cardinality(InBucket(h, a, errs, cur - i))
        /\ u.buckets[i] \in Bucket
    BY <1>1, <1>2 DEF Reflects
  <2>2. Counter(errs, u.buckets[i]) \in Nat
    BY <2>1, CountAdds
  <2>3. Cardinality(InBucket(h2, a, errs, cur - i)) =
          Cardinality(InBucket(h, a, errs, cur - i))
            + IF Counts(e, a, errs) /\ cur = cur - i THEN 1 ELSE 0
    BY <1>6 DEF cur
  <2>4. cur \in Nat /\ i \in Nat
    BY <1>3 DEF cur
  <2>5. CASE i = 0
    <3>1. Counter(errs, v.buckets[i]) =
            Counter(errs, u.buckets[i]) + IF errs /\ success THEN 0 ELSE 1
      BY <1>4, <2>1, <2>5, CountAdds
    <3>2. cur = cur - i
      BY <2>4, <2>5
    <3> QED
      BY <1>5, <2>1, <2>2, <2>3, <3>1, <3>2
  <2>6. CASE i # 0
    <3>1. cur # cur - i
      BY <2>4, <2>6
    <3> QED
      BY <1>4, <2>1, <2>2, <2>3, <2>6, <3>1
  <2> QED
    BY <2>5, <2>6
<1>9. Reflects(v, h2, a)
  BY <1>4, <1>7, <1>8 DEF Reflects
<1> QED
  BY <1>4, <1>9 DEF h2, v, cur

\* The totals of a tracker are the attempts of its last BucketCount buckets.
LEMMA TotalsReflect ==
  ASSUME NEW u \in Tracker, u.head \in Nat, NEW h, NEW a, EndedTyped(h),
         Reflects(u, h, a), NEW errs \in BOOLEAN
  PROVE  Counter(errs, Totals(u)) =
           Cardinality({x \in Counted(h, a, errs) :
                          BucketOf(Past(h, x).at) > u.head - BucketCount})
<1> DEFINE X == Counted(h, a, errs)
           f == [i \in Slots |-> IF errs THEN u.buckets[i].errs ELSE u.buckets[i].reqs]
           k == [x \in X |-> u.head - BucketOf(Past(h, x).at)]
<1>1. Counter(errs, Totals(u)) = SumFunctionOnSet(f, Slots)
  <2>1. CASE errs
    <3>1. f = [i \in Slots |-> u.buckets[i].errs] /\ DOMAIN f = Slots
      BY <2>1
    <3>2. Totals(u).errs = SumFunctionOnSet(f, DOMAIN f)
      BY <3>1 DEF Totals, FoldFunction, SumFunctionOnSet
    <3> QED
      BY <2>1, <3>1, <3>2 DEF Counter
  <2>2. CASE ~errs
    <3>1. f = [i \in Slots |-> u.buckets[i].reqs] /\ DOMAIN f = Slots
      BY <2>2
    <3>2. Totals(u).reqs = SumFunctionOnSet(f, DOMAIN f)
      BY <3>1 DEF Totals, FoldFunction, SumFunctionOnSet
    <3> QED
      BY <2>2, <3>1, <3>2 DEF Counter
  <2> QED
    BY <2>1, <2>2
<1>2. IsFiniteSet(Slots) /\ IsFiniteSet(X)
  <2>1. IsFiniteSet(Slots)
    BY BucketCountAssumption, FS_Interval DEF Slots
  <2>2. X \in SUBSET Ended(h)
    BY DEF Counted
  <2> QED
    BY <2>1, <2>2, FS_Subset DEF EndedTyped
<1>3. \A x \in X : BucketOf(Past(h, x).at) \in Nat /\ BucketOf(Past(h, x).at) <= u.head
  BY DEF Reflects, Counted, EndedTyped
<1>4. ASSUME NEW i \in Slots PROVE f[i] = Cardinality(Class(X, k, i))
  <2>1. f[i] = Counter(errs, u.buckets[i])
    BY DEF Counter
  <2>2. Counter(errs, u.buckets[i]) = Cardinality(InBucket(h, a, errs, u.head - i))
    BY DEF Reflects
  <2>3. InBucket(h, a, errs, u.head - i) = Class(X, k, i)
    <3>1. ASSUME NEW x \in X
          PROVE  BucketOf(Past(h, x).at) = u.head - i <=> k[x] = i
      <4>1. i \in Int /\ BucketOf(Past(h, x).at) \in Int /\ u.head \in Int
        BY <1>3 DEF Slots
      <4>2. k[x] = u.head - BucketOf(Past(h, x).at)
        OBVIOUS
      <4> QED
        BY <4>1, <4>2
    <3> QED
      BY <3>1 DEF InBucket, Class
  <2> QED
    BY <2>1, <2>2, <2>3
<1>5. SumFunctionOnSet(f, Slots) = Cardinality(Within(X, k, Slots))
  <2> HIDE DEF f, k, X
  <2> QED
    BY <1>2, <1>4, SumOfClasses
<1>6. Within(X, k, Slots) = {x \in X : BucketOf(Past(h, x).at) > u.head - BucketCount}
  <2>1. ASSUME NEW x \in X
        PROVE  k[x] \in Slots <=> BucketOf(Past(h, x).at) > u.head - BucketCount
    <3>1. /\ BucketOf(Past(h, x).at) \in Nat /\ BucketOf(Past(h, x).at) <= u.head
          /\ k[x] = u.head - BucketOf(Past(h, x).at)
      BY <1>3
    <3> QED
      BY <3>1, BucketCountAssumption DEF Slots
  <2> QED
    BY <2>1 DEF Within
<1> QED
  BY <1>1, <1>5, <1>6

\* The clock alone moves no counter.
LEMMA TimeKeepsStats ==
  ASSUME StatsInv, AllTyped, stats' = stats, history' = history,
         now' \in Nat, now <= now'
  PROVE  StatsInv'
<1>1. /\ BucketOf(now) \in Nat /\ BucketOf(now') \in Nat
      /\ BucketOf(now) <= BucketOf(now')
  <2>1. now \in Nat
    BY DEF AllTyped, PoolTypes
  <2>2. now \div BucketDuration <= now' \div BucketDuration
    BY <2>1, BucketDurationAssumption, DivisionMonotone
  <2> QED
    BY <2>1, <2>2, BucketTyped DEF BucketOf
<1>2. \A a \in AccountIDs : stats[a].head \in Int
  BY DEF AllTyped, PoolTypes, Tracker, NoHead
<1>3. \A a \in AccountIDs : stats'[a].head <= BucketOf(now')
  <2> SUFFICES ASSUME NEW a \in AccountIDs PROVE stats[a].head <= BucketOf(now')
    OBVIOUS
  <2>1. stats[a].head <= BucketOf(now) /\ stats[a].head \in Int
    BY <1>2 DEF StatsInv
  <2> QED
    BY <1>1, <2>1
<1> QED
  BY <1>3 DEF StatsInv

\* Pick rolls the trackers it looks at (pool.go:64-82).
LEMMA PickKeepsStats ==
  ASSUME StatsInv, AllTyped, NEW ids, stats' = Rolled(stats, ids, now),
         history' = history, now' = now
  PROVE  StatsInv'
<1>1. BucketOf(now) \in Nat
  BY BucketTyped DEF AllTyped, PoolTypes
<1>2. ASSUME NEW a \in AccountIDs
      PROVE  stats'[a].head <= BucketOf(now) /\ Reflects(stats'[a], history, a)
  <2>1. /\ stats[a] \in Tracker /\ stats[a].head <= BucketOf(now)
        /\ Reflects(stats[a], history, a) /\ EndedTyped(history)
    BY DEF StatsInv, AllTyped, PoolTypes
  <2>2. CASE stats'[a] = stats[a]
    BY <2>1, <2>2
  <2>3. CASE stats'[a] = rollLocked(stats[a], now)
    <3>1. /\ rollLocked(stats[a], now).head = BucketOf(now)
          /\ Reflects(rollLocked(stats[a], now), history, a)
      BY <1>1, <2>1, RollReflects
    <3> QED
      BY <1>1, <2>3, <3>1
  <2> QED
    BY <2>2, <2>3 DEF Rolled
<1> QED
  BY <1>2 DEF StatsInv

\* An attempt ends: it is marked, or it says nothing of the account
\* (retry.go:64-81, pool.go:139-160).
LEMMA EndKeepsStats ==
  ASSUME StatsInv, AllTyped, RunnerInv, NEW r \in Requests, phase[r] = "opening",
         NEW class, NEW retryable, NEW err,
         history' = [history EXCEPT ![r] = Append(@, Finished(r, class, retryable, err))],
         now' = now,
         \/ class = "ok" /\ stats' = Mark(stats, held[r].id, now, TRUE)
         \/ class = "account" /\ stats' = Mark(stats, held[r].id, now, FALSE)
         \/ class \notin {"ok", "account"} /\ stats' = stats
  PROVE  StatsInv'
<1> DEFINE e == Finished(r, class, retryable, err)
           id == held[r].id
<1>1. e.id = id /\ e.at = now /\ e.class = class
  BY DEF Finished
<1> HIDE DEF e
<1>2. BucketOf(now) \in Nat
  BY BucketTyped DEF AllTyped, PoolTypes
<1>3. /\ DOMAIN history = Requests /\ IsSeq(history[r]) /\ Len(history[r]) < MaxAttempts
      /\ EndedTyped(history)
  <2>1. Len(history[r]) = attempt[r] /\ attempt[r] \in 0 .. (MaxAttempts - 1)
    BY DEF RunnerInv, RequestInv, Looping, LoopPhases, Domains
  <2> QED
    BY <2>1 DEF RunnerInv, RequestInv, Domains, StatsInv, MaxAttempts
<1>4. history' = Extend(history, r, e)
  BY DEF Extend, e
<1>5. EndedTyped(history')
  <2>1. BucketOf(e.at) \in Nat
    BY <1>1, <1>2
  <2>2. EndedTyped(Extend(history, r, e))
    BY <1>3, <2>1, CountedAfter
  <2> QED
    BY <1>4, <2>2
<1>6. id \in AccountIDs
  BY DEF AllTyped, RequestTypes, HeldTyped
<1> HIDE DEF id
<1>7. \A a \in AccountIDs : /\ stats[a] \in Tracker /\ stats[a].head <= BucketOf(now)
                            /\ Reflects(stats[a], history, a)
  BY DEF StatsInv, AllTyped, PoolTypes
<1>8. ASSUME NEW a \in AccountIDs, a # id \/ class \notin {"ok", "account"}, stats'[a] = stats[a]
      PROVE  stats'[a].head <= BucketOf(now) /\ Reflects(stats'[a], history', a)
  <2>1. \A errs \in BOOLEAN : ~Counts(e, a, errs)
    BY <1>1, <1>8 DEF Counts, Classed
  <2>2. Reflects(stats[a], Extend(history, r, e), a)
    <3>1. BucketOf(e.at) \in Nat
      BY <1>1, <1>2
    <3> QED
      BY <1>3, <1>7, <2>1, <3>1, ReflectsStill
  <2> QED
    BY <1>4, <1>7, <1>8, <2>2
<1>9. ASSUME NEW success \in BOOLEAN, class = (IF success THEN "ok" ELSE "account"),
             stats' = Mark(stats, id, now, success)
      PROVE  stats'[id].head <= BucketOf(now) /\ Reflects(stats'[id], history', id)
  <2>1. \A errs \in BOOLEAN : Counts(e, id, errs) <=> ~(errs /\ success)
    BY <1>1, <1>9 DEF Counts, Classed
  <2>2. /\ Record(stats[id], e.at, success).head = BucketOf(e.at)
        /\ Reflects(Record(stats[id], e.at, success), Extend(history, r, e), id)
    <3>1. PICK t : t = stats[id]
      OBVIOUS
    <3>2. t \in Tracker /\ t.head <= BucketOf(e.at) /\ Reflects(t, history, id)
      BY <1>1, <1>6, <1>7, <3>1
    <3>3. BucketOf(e.at) \in Nat
      BY <1>1, <1>2
    <3>4. PICK h : h = history
      OBVIOUS
    <3>5. /\ DOMAIN h = Requests /\ IsSeq(h[r]) /\ Len(h[r]) < MaxAttempts
          /\ EndedTyped(h) /\ Reflects(t, h, id)
      BY <1>3, <3>2, <3>4
    <3>6. /\ Record(t, e.at, success).head = BucketOf(e.at)
          /\ Reflects(Record(t, e.at, success), Extend(h, r, e), id)
      BY <2>1, <3>2, <3>3, <3>5, RecordReflects
    <3> QED
      BY <3>1, <3>4, <3>6
  <2>3. stats'[id] = Record(stats[id], e.at, success)
    <3>1. stats'[id] = Record(stats[id], now, success)
      BY <1>6, <1>9 DEF Mark, AllTyped, PoolTypes
    <3> QED
      BY <1>1, <3>1
  <2>4. Reflects(stats'[id], history', id)
    BY <1>4, <2>2, <2>3, Zenon
  <2>5. stats'[id].head = BucketOf(now)
    BY <1>1, <2>2, <2>3, Zenon
  <2> QED
    BY <1>2, <2>4, <2>5
<1>10. ASSUME NEW a \in AccountIDs
       PROVE  stats'[a].head <= BucketOf(now) /\ Reflects(stats'[a], history', a)
  <2>1. CASE class \notin {"ok", "account"} /\ stats' = stats
    BY <1>8, <2>1
  <2>2. ASSUME NEW success \in BOOLEAN, class = (IF success THEN "ok" ELSE "account"),
               stats' = Mark(stats, id, now, success)
        PROVE  stats'[a].head <= BucketOf(now) /\ Reflects(stats'[a], history', a)
    <3>1. CASE a = id
      BY <1>9, <2>2, <3>1
    <3>2. CASE a # id
      <4>1. stats'[a] = stats[a]
        BY <2>2, <3>2 DEF Mark, AllTyped, PoolTypes
      <4> QED
        BY <1>8, <3>2, <4>1
    <3> QED
      BY <3>1, <3>2
  <2>3. CASE class = "ok" /\ stats' = Mark(stats, id, now, TRUE)
    BY <2>2, <2>3
  <2>4. CASE class = "account" /\ stats' = Mark(stats, id, now, FALSE)
    BY <2>2, <2>4
  <2> QED
    BY <2>1, <2>3, <2>4 DEF id
<1> QED
  BY <1>5, <1>10 DEF StatsInv

\* A failed attempt marks its account if it proves it broken (retry.go:64-81).
LEMMA ResultsKeepStats ==
  ASSUME StatsInv, AllTyped, RunnerInv, NEW r \in Requests, phase[r] = "opening",
         now' = now, NEW class \in Classes, NEW err,
         TryAgain(r, class, err) \/ GiveUp(r, class, err)
  PROVE  StatsInv'
<1>1. PICK retryable :
        history' = [history EXCEPT ![r] = Append(@, Finished(r, class, retryable, err))]
  BY DEF TryAgain, GiveUp
<1>2. markError(held[r].id, class)
  BY DEF TryAgain, GiveUp
<1>3. class # "ok"
  BY DEF Classes
<1>4. \/ class = "account" /\ stats' = Mark(stats, held[r].id, now, FALSE)
      \/ class \notin {"ok", "account"} /\ stats' = stats
  BY <1>2, <1>3 DEF markError
<1> QED
  BY <1>1, <1>4, EndKeepsStats

\* However the attempt ends.
LEMMA UpstreamKeepsStats ==
  ASSUME StatsInv, AllTyped, RunnerInv, NEW r \in Requests, Upstream(r)
  PROVE  StatsInv'
<1>1. ASSUME NEW err \in OpenErrors, OpenFails(r, err) \/ ReadFails(r, err)
      PROVE  StatsInv'
  <2> DEFINE class == classifyOpenError(err)
  <2>1. /\ phase[r] = "opening" /\ now' = now
        /\ TryAgain(r, class, err) \/ GiveUp(r, class, err)
    BY <1>1 DEF OpenFails, ReadFails
  <2>2. class \in Classes
    BY ErrorsAssumption
  <2> HIDE DEF class
  <2> QED
    BY <2>1, <2>2, ResultsKeepStats
<1>2. CASE EndsEarly(r)
  <2>1. phase[r] = "opening" /\ now' = now /\ TryAgain(r, "transient", BareError)
    BY <1>2 DEF EndsEarly
  <2>2. "transient" \in Classes
    BY DEF Classes
  <2> QED
    BY <2>1, <2>2, ResultsKeepStats
<1>3. ASSUME NEW frame \in Frames, ErrorFrame(r, frame) PROVE StatsInv'
  <2> DEFINE class == classifyStreamError(frame)
  <2>1. /\ phase[r] = "opening" /\ now' = now
        /\ \/ TryAgain(r, class, BareError)
           \/ GiveUp(r, class, streamErrorToAPIError(frame))
    BY <1>3 DEF ErrorFrame
  <2>2. class \in Classes
    BY ErrorsAssumption
  <2> HIDE DEF class
  <2> QED
    BY <2>1, <2>2, ResultsKeepStats
<1>4. CASE Opened(r)
  <2>1. /\ phase[r] = "opening" /\ now' = now
        /\ stats' = Mark(stats, held[r].id, now, TRUE)
        /\ history' = [history EXCEPT ![r] = Append(@, Finished(r, "ok", FALSE, NoErr))]
    BY <1>4 DEF Opened
  <2> QED
    BY <2>1, EndKeepsStats
<1>5. ASSUME NEW broken \in BOOLEAN, NEW looksLikeClient \in BOOLEAN,
             Responded(r, broken, looksLikeClient)
      PROVE  StatsInv'
  <2>1. stats' = stats /\ history' = history /\ now' = now /\ now \in Nat
    BY <1>5 DEF Responded, poolVars, AllTyped, PoolTypes
  <2> QED
    BY <2>1, TimeKeepsStats
<1> QED
  BY <1>1, <1>2, <1>3, <1>4, <1>5 DEF Upstream

\* Nothing else touches the statistics: not the rows, not their deletion.
LEMMA StepKeepsStats ==
  ASSUME StatsInv, AllTyped, RunnerInv, [Next]_vars
  PROVE  StatsInv'
<1>1. now \in Nat
  BY DEF AllTyped, PoolTypes
<1>2. ASSUME stats' = stats, history' = history, now' = now \/ now' = now + 1
      PROVE  StatsInv'
  <2>1. now' \in Nat /\ now <= now'
    BY <1>1, <1>2
  <2> QED
    BY <1>2, <2>1, TimeKeepsStats
<1>3. CASE UNCHANGED vars
  BY <1>2, <1>3 DEF vars, poolVars, reqVars
<1>4. CASE Next
  <2>1. ASSUME NEW r \in Requests,
               Arrive(r) \/ BackoffElapsed(r) \/ BackoffCancelled(r) \/ ClientLeaves(r)
        PROVE  StatsInv'
    BY <1>2, <2>1 DEF Arrive, BackoffElapsed, BackoffCancelled, ClientLeaves, poolVars
  <2>2. ASSUME NEW r \in Requests, PickSome(r) \/ PickNone(r) PROVE StatsInv'
    BY <2>2, PickKeepsStats DEF PickSome, PickNone
  <2>3. ASSUME NEW r \in Requests, Upstream(r) PROVE StatsInv'
    BY <2>3, UpstreamKeepsStats
  <2>4. CASE Environment
    <3>1. stats' = stats /\ history' = history /\ (now' = now \/ now' = now + 1)
      BY <2>4 DEF Environment, SetPaused, DeleteAccount, SetCredits, AddAccount, Edit,
                  Tick, reqVars
    <3> QED
      BY <1>2, <3>1
  <2> QED
    BY <1>4, <2>1, <2>2, <2>3, <2>4 DEF Next, Local
<1> QED
  BY <1>3, <1>4

\* Nothing was tried and nothing is counted.
LEMMA InitHasStats == Init => StatsInv
<1> SUFFICES ASSUME Init PROVE StatsInv
  OBVIOUS
<1>1. Ended(history) = {}
  BY DEF Init, Ended
<1>2. EndedTyped(history)
  BY <1>1, FS_EmptySet DEF EndedTyped
<1>3. \A a, errs, b : Counted(history, a, errs) = {} /\ InBucket(history, a, errs, b) = {}
  BY <1>1 DEF Counted, InBucket
<1>4. ASSUME NEW a \in AccountIDs
      PROVE  stats[a].head <= BucketOf(now) /\ Reflects(stats[a], history, a)
  <2>1. stats[a].head = NoHead /\ \A i \in Slots : stats[a].buckets[i] = EmptyBucket
    BY DEF Init, NewRollingStats
  <2>2. BucketOf(now) \in Nat
    BY BucketTyped DEF Init
  <2>3. \A errs \in BOOLEAN : Counter(errs, EmptyBucket) = 0
    BY DEF Counter, EmptyBucket
  <2>4. Reflects(stats[a], history, a)
    BY <1>3, <2>1, <2>3, FS_EmptySet DEF Reflects
  <2> QED
    BY <2>1, <2>2, <2>4 DEF NoHead
<1> QED
  BY <1>2, <1>4 DEF StatsInv

\* For any accounts, requests, failures and clock: the pool's counters are the
\* attempts of the window, each counted once for the account that was tried,
\* and none that proves nothing of it (retry.go:64-81, pool.go:139-160).
THEOREM CountersAreHistory == Spec => []StatsAreHistory
<1>1. Init => RunnerInv /\ AllTyped /\ StatsInv
  BY InitHasInv, InitTyped, InitHasStats
<1>2. RunnerInv /\ AllTyped /\ StatsInv /\ [Next]_vars => RunnerInv' /\ AllTyped' /\ StatsInv'
  BY StepKeepsInv, StepTyped, StepKeepsStats
<1>3. AllTyped /\ StatsInv => StatsAreHistory
  <2> SUFFICES ASSUME AllTyped, StatsInv, NEW a \in AccountIDs
               PROVE  Totals(rollLocked(stats[a], now)) =
                        [reqs |-> Cardinality(Finishes(a, {"ok", "account"})),
                         errs |-> Cardinality(Finishes(a, {"account"}))]
    BY DEF StatsAreHistory
  <2> DEFINE u == rollLocked(stats[a], now)
  <2>1. BucketOf(now) \in Nat
    BY BucketTyped DEF AllTyped, PoolTypes
  <2>2. u \in Tracker /\ u.head = BucketOf(now) /\ Reflects(u, history, a) /\ EndedTyped(history)
    <3>1. /\ stats[a] \in Tracker /\ stats[a].head <= BucketOf(now)
          /\ Reflects(stats[a], history, a) /\ EndedTyped(history)
      BY DEF StatsInv, AllTyped, PoolTypes
    <3> QED
      BY <2>1, <3>1, RollReflects, RollTyped
  <2> HIDE DEF u
  <2>3. ASSUME NEW errs \in BOOLEAN
        PROVE  Counter(errs, Totals(u)) = Cardinality(Finishes(a, Classed(errs)))
    <3>1. Finishes(a, Classed(errs)) =
            {x \in Counted(history, a, errs) :
               BucketOf(Past(history, x).at) > u.head - BucketCount}
      BY <2>2 DEF Finishes, InWindow, Counted, Counts, Ended, Past
    <3> QED
      BY <2>1, <2>2, <3>1, TotalsReflect
  <2>4. Counter(FALSE, Totals(u)) = Totals(u).reqs /\ Counter(TRUE, Totals(u)) = Totals(u).errs
    BY DEF Counter
  <2>5. Classed(FALSE) = {"ok", "account"} /\ Classed(TRUE) = {"account"}
    BY DEF Classed
  <2>6. Totals(u) = [reqs |-> Totals(u).reqs, errs |-> Totals(u).errs]
    BY DEF Totals
  <2> QED
    BY <2>3, <2>4, <2>5, <2>6 DEF u
<1> QED
  BY <1>1, <1>2, <1>3, PTL DEF Spec
=============================================================================
