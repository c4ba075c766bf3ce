------------------------------- MODULE Runner -------------------------------
(***************************************************************************)
(* internal/proxy/retry.go with the handlers that call it: concurrent      *)
(* proxy requests, each trying up to three accounts of the pool, while the *)
(* dashboard and the credit poller change the accounts underneath them.    *)
(*                                                                         *)
(* A streaming request (Execute) may retry until the first frame is read;  *)
(* a unary one (ExecuteAccumulated) until the whole stream is drained.     *)
(* Pick, MarkError and MarkSuccess take their own locks, so each of them   *)
(* is one step; a request keeps the row it picked while it waits.          *)
(***************************************************************************)
EXTENDS Pool, FailureClass, Sequences

CONSTANTS
  Requests,      (* the requests that may arrive                           *)
  Hash,          (* request -> Sum64 of its token, model and prefix        *)
  Modes,         (* {"stream", "unary"} or one of them                     *)
  OpenErrors,    (* what Generate and a read of the body may return        *)
  Frames,        (* the error frames upstream may send                     *)
  Balances,      (* the balances the billing endpoint may report           *)
  MaxTime,       (* bound: the last instant of the clock                   *)
  MaxEdits,      (* bound: changes made to the accounts                    *)
  InitAccounts   (* the accounts at the start                              *)

ASSUME HashAssumption == Hash \in [Requests -> Nat]
ASSUME ModesAssumption == Modes \subseteq {"stream", "unary"}
ASSUME BoundsAssumption == MaxTime \in Nat /\ MaxEdits \in Nat
ASSUME BalancesAssumption == Balances \subseteq Nat
ASSUME InitAccountsAssumption ==
  InitAccounts \in [AccountIDs -> Row(Nat, Balances) \cup {NoAccount}]
ASSUME ErrorsAssumption ==
  /\ \A e \in OpenErrors : classifyOpenError(e) \in Classes
  /\ \A f \in Frames : classifyStreamError(f) \in Classes
\* Only an answer from 400 up is an error (client.go:152-155); a frame may
\* carry any number as its status.
ASSUME StatusesAssumption ==
  /\ \A e \in OpenErrors : /\ e.kind \in {"api", "ctx", "bare"}
                           /\ e.kind = "api" => e.status \in Nat /\ e.status >= 400
  /\ \A f \in Frames : ~f.malformed => f.status \in Int

\* len(retryBackoffs): the attempts of one request.
MaxAttempts == 3

VARIABLES
  accounts,   (* the store's accounts                                      *)
  stats,      (* the pool's rolling statistics                             *)
  now,        (* the wall clock                                            *)
  edits,      (* changes made to the accounts so far                       *)
  phase,      (* where each request is                                     *)
  mode,       (* streaming or unary                                        *)
  attempt,    (* index of the current attempt                              *)
  tried,      (* the accounts Pick is told to exclude                      *)
  held,       (* the account picked for the current attempt, with the key  *)
              (* it had then                                               *)
  lastErr,    (* the failure of the previous attempt                       *)
  ctxDone,    (* whether the client is gone                                *)
  entry,      (* the traffic entry recorded for the request                *)
  history,    (* ghost: the request's finished attempts                    *)
  steady      (* ghost: the accounts Pick would have taken in every state  *)
              (* since the request arrived                                 *)

poolVars == <<accounts, stats, now, edits>>
loopVars == <<attempt, tried, held, lastErr>>
reqVars  == <<phase, mode, attempt, tried, held, lastErr, ctxDone, entry, history>>
vars     == <<poolVars, reqVars, steady>>

Phases == {"idle", "backoff", "picking", "opening", "streaming", "done"}

NoErr        == [kind |-> "none"]
NoneHealthy  == [kind |-> "no_account"]   \* pool.ErrNoHealthyAccount
NoEntry      == [status |-> 0]

\* A finished attempt: on whom, when, what it said of the account, whether the
\* loop may go on after it and how it failed.
Finished(r, class, retryable, err) ==
  [id |-> held[r].id, at |-> now, class |-> class, retryable |-> retryable,
   failure |-> err]

Healthy == Candidates(accounts, stats, now, {})

Init ==
  /\ accounts = InitAccounts
  /\ stats = [a \in AccountIDs |-> NewRollingStats]
  /\ now = 0
  /\ edits = 0
  /\ phase = [r \in Requests |-> "idle"]
  /\ mode \in [Requests -> Modes]
  /\ attempt = [r \in Requests |-> 0]
  /\ tried = [r \in Requests |-> {}]
  /\ held = [r \in Requests |-> [id |-> -1, key |-> NoKey]]
  /\ lastErr = [r \in Requests |-> NoErr]
  /\ ctxDone = [r \in Requests |-> FALSE]
  /\ entry = [r \in Requests |-> NoEntry]
  /\ history = [r \in Requests |-> <<>>]
  /\ steady = [r \in Requests |-> {}]
-----------------------------------------------------------------------------
(* One request.                                                            *)

Arrive(r) ==
  /\ phase[r] = "idle"
  /\ phase' = [phase EXCEPT ![r] = "picking"]   \* retryBackoffs[0] is 0
  /\ UNCHANGED <<poolVars, mode, loopVars, ctxDone, entry, history>>

\* The traffic row of a request that opened nothing: the handler has neither
\* the account nor the Retried flag, only the error.
httpStatusFromErr(err) ==
  CASE err.kind = "api" /\ err.status > 0 -> err.status
    [] err.kind = "no_account"            -> 503
    [] OTHER                              -> 502

RecordFailure(r, err) ==
  /\ phase' = [phase EXCEPT ![r] = "done"]
  /\ entry' = [entry EXCEPT ![r] = [status  |-> httpStatusFromErr(err),
                                    account |-> -1, retried |-> FALSE]]

BackoffElapsed(r) ==
  /\ phase[r] = "backoff"
  /\ phase' = [phase EXCEPT ![r] = "picking"]
  /\ UNCHANGED <<poolVars, mode, loopVars, ctxDone, entry, history>>

\* ctx.Done() wins the select; when the timer fired too, either may.
BackoffCancelled(r) ==
  /\ phase[r] = "backoff" /\ ctxDone[r]
  /\ RecordFailure(r, CtxError)
  /\ UNCHANGED <<poolVars, mode, loopVars, ctxDone, history>>

\* Mutant: the account just picked is not excluded.
Exclude_Nobody(r, id) == tried

Exclude(r, id) == [tried EXCEPT ![r] = @ \cup {id}]

\* Pick found an account: it is excluded from now on and Generate starts with
\* the key of the snapshot.
PickSome(r) ==
  LET candidates == Candidates(accounts, stats, now, tried[r])
      id == Choice(candidates, Hash[r])
  IN  /\ phase[r] = "picking"
      /\ candidates # {}
      /\ stats' = Rolled(stats, Consulted(accounts, tried[r]), now)
      /\ tried' = Exclude(r, id)
      /\ held' = [held EXCEPT ![r] = [id |-> id, key |-> accounts[id].key]]
      /\ phase' = [phase EXCEPT ![r] = "opening"]
      /\ UNCHANGED <<accounts, now, edits, mode, attempt, lastErr, ctxDone,
                     entry, history>>

\* Mutants: the exclusion is never dropped; it is dropped again and again.
PickAgain_Never(r)  == FALSE
PickAgain_Always(r) == TRUE

PickAgain(r) == tried[r] # {}

\* Pick found nobody: with somebody excluded the exclusion is dropped and Pick
\* called once more, on a new snapshot; otherwise the request fails with the
\* failure of its previous attempt, if there was one.
PickNone(r) ==
  /\ phase[r] = "picking"
  /\ Candidates(accounts, stats, now, tried[r]) = {}
  /\ stats' = Rolled(stats, Consulted(accounts, tried[r]), now)
  /\ tried' = [tried EXCEPT ![r] = {}]
  /\ IF PickAgain(r)
     THEN UNCHANGED <<phase, entry>>
     ELSE RecordFailure(r, IF lastErr[r] # NoErr THEN lastErr[r] ELSE NoneHealthy)
  /\ UNCHANGED <<accounts, now, edits, mode, attempt, held, lastErr, ctxDone,
                 history>>

\* Mutant: every failure but the client's counts against the account.
markError_AnyFailure(id, class) ==
  stats' = IF class # "client" THEN Mark(stats, id, now, FALSE) ELSE stats

markError(id, class) ==
  stats' = IF class = "account" THEN Mark(stats, id, now, FALSE) ELSE stats

\* Mutant: the bound of the loop is off by one.
AttemptsLeft_OneMore(r) == attempt[r] < MaxAttempts

AttemptsLeft(r) == attempt[r] + 1 < MaxAttempts

\* `continue`: keep the error and go to the next attempt, if any is left.
TryAgain(r, class, err) ==
  /\ markError(held[r].id, class)
  /\ history' = [history EXCEPT ![r] = Append(@, Finished(r, class, TRUE, err))]
  /\ lastErr' = [lastErr EXCEPT ![r] = err]
  /\ IF AttemptsLeft(r)
     THEN /\ attempt' = [attempt EXCEPT ![r] = @ + 1]
          /\ phase' = [phase EXCEPT ![r] = "backoff"]
          /\ UNCHANGED entry
     ELSE RecordFailure(r, err) /\ UNCHANGED attempt

\* `return`: the failure goes to the client.
GiveUp(r, class, err) ==
  /\ markError(held[r].id, class)
  /\ history' = [history EXCEPT ![r] = Append(@, Finished(r, class, FALSE, err))]
  /\ RecordFailure(r, err)
  /\ UNCHANGED <<attempt, lastErr>>

\* Mutant: the upstream call is not bound to the request's context.
MayReturn_NoContext(r, err) == err.kind # "ctx"

\* A cancelled context surfaces as its error.
MayReturn(r, err) == err.kind = "ctx" => ctxDone[r]

\* Generate fails.
OpenFails(r, err) ==
  /\ phase[r] = "opening"
  /\ MayReturn(r, err)
  /\ LET class == classifyOpenError(err) IN
       IF class # "client" /\ shouldRetryError(err)
       THEN TryAgain(r, class, err)
       ELSE GiveUp(r, class, err)
  /\ UNCHANGED <<accounts, now, edits, mode, tried, held, ctxDone>>

\* Reading the body fails before anything was sent to the client: the first
\* read of a stream, any read of a unary request.  No shouldRetryError here.
ReadFails(r, err) ==
  /\ phase[r] = "opening"
  /\ err.kind # "api"
  /\ MayReturn(r, err)
  /\ LET class == classifyOpenError(err) IN
       IF class # "client" THEN TryAgain(r, class, err)
                           ELSE GiveUp(r, class, err)
  /\ UNCHANGED <<accounts, now, edits, mode, tried, held, ctxDone>>

\* The stream ends too early: empty (Execute), or before `finish`
\* (ExecuteAccumulated, which counts an empty one as such).
EndsEarly(r) ==
  /\ phase[r] = "opening"
  /\ TryAgain(r, "transient", BareError)
  /\ UNCHANGED <<accounts, now, edits, mode, tried, held, ctxDone>>

\* An `error` frame, the first of a stream or any of a unary request.
ErrorFrame(r, frame) ==
  /\ phase[r] = "opening"
  /\ LET class == classifyStreamError(frame) IN
       IF isStreamErrorRetryable(frame)
       THEN TryAgain(r, class, BareError)
       ELSE GiveUp(r, class, streamErrorToAPIError(frame))
  /\ UNCHANGED <<accounts, now, edits, mode, tried, held, ctxDone>>

\* The attempt is handed to the handler, which marks the account at once.
Opened(r) ==
  /\ phase[r] = "opening"
  /\ stats' = Mark(stats, held[r].id, now, TRUE)
  /\ history' = [history EXCEPT ![r] = Append(@, Finished(r, "ok", FALSE, NoErr))]
  /\ phase' = [phase EXCEPT ![r] = "streaming"]
  /\ UNCHANGED <<accounts, now, edits, mode, loopVars, ctxDone, entry>>

\* Mutant: the first retry is not taken for one.
Retried_FromTheSecond(r) == attempt[r] > 1

Retried(r) == attempt[r] > 0

\* The handler is through: a unary response is always recorded as 200; a
\* stream that broke as 502, unless the break looks like the client's doing.
Responded(r, broken, looksLikeClient) ==
  /\ phase[r] = "streaming"
  /\ broken => mode[r] = "stream"
  /\ phase' = [phase EXCEPT ![r] = "done"]
  /\ entry' = [entry EXCEPT ![r] =
       [status  |-> IF broken /\ ~ctxDone[r] /\ ~looksLikeClient THEN 502 ELSE 200,
        account |-> held[r].id, retried |-> Retried(r)]]
  /\ UNCHANGED <<poolVars, mode, loopVars, ctxDone, history>>

ClientLeaves(r) ==
  /\ phase[r] \notin {"idle", "done"}
  /\ ~ctxDone[r]
  /\ ctxDone' = [ctxDone EXCEPT ![r] = TRUE]
  /\ UNCHANGED <<poolVars, phase, mode, loopVars, entry, history>>
-----------------------------------------------------------------------------
(* What happens to the accounts meanwhile (store/traffic.go, oauth.go).    *)

Edit(a, row) ==
  /\ edits < MaxEdits
  /\ edits' = edits + 1
  /\ accounts' = [accounts EXCEPT ![a] = row]
  /\ UNCHANGED <<stats, now, reqVars>>

SetPaused(a, paused) ==
  /\ accounts[a] # NoAccount /\ accounts[a].paused # paused
  /\ Edit(a, [accounts[a] EXCEPT !.paused = paused])

DeleteAccount(a) == accounts[a] # NoAccount /\ Edit(a, NoAccount)

SetCredits(a, credits) ==
  /\ accounts[a] # NoAccount /\ accounts[a].credits # credits
  /\ Edit(a, [accounts[a] EXCEPT !.credits = credits])

\* Upsert of a verified key; credits is Unknown when the billing endpoint did
\* not answer.  The pool keeps the statistics of the ID, and a refreshed row
\* its pause and, without an answer, its balance.
AddAccount(a, credits) ==
  IF accounts[a] = NoAccount
  THEN Edit(a, [key |-> 1, paused |-> FALSE, credits |-> credits])
  ELSE Edit(a, [accounts[a] EXCEPT
                  !.key = @ + 1,
                  !.credits = IF credits = Unknown THEN @ ELSE credits])

Tick ==
  /\ now < MaxTime
  /\ now' = now + 1
  /\ UNCHANGED <<accounts, stats, edits, reqVars>>
-----------------------------------------------------------------------------
Upstream(r) ==
  \/ \E err \in OpenErrors : OpenFails(r, err) \/ ReadFails(r, err)
  \/ EndsEarly(r)
  \/ \E frame \in Frames : ErrorFrame(r, frame)
  \/ Opened(r)
  \/ \E broken, looksLikeClient \in BOOLEAN : Responded(r, broken, looksLikeClient)

Local(r) ==
  BackoffElapsed(r) \/ BackoffCancelled(r) \/ PickSome(r) \/ PickNone(r)

Environment ==
  \/ \E a \in AccountIDs :
       \/ \E paused \in BOOLEAN : SetPaused(a, paused)
       \/ DeleteAccount(a)
       \/ \E credits \in Balances : SetCredits(a, credits)
       \/ \E credits \in Balances \cup {Unknown} : AddAccount(a, credits)
  \/ Tick

\* An account stays in steady[r] while Pick would take it.
Observe ==
  steady' = [r \in Requests |->
    IF phase'[r] \in {"idle", "done"} THEN steady[r]
    ELSE IF phase[r] = "idle"         THEN Healthy'
    ELSE steady[r] \cap Healthy']

Next ==
  /\ \/ \E r \in Requests : Arrive(r) \/ Local(r) \/ Upstream(r) \/ ClientLeaves(r)
     \/ Environment
  /\ Observe

Spec == Init /\ [][Next]_vars

\* The process schedules its goroutines, a timer fires, and a cancelled
\* context ends the call that waits on it.
Cancellation(r) ==
  /\ ctxDone[r]
  /\ OpenFails(r, CtxError) \/ Responded(r, TRUE, FALSE)

LocalFairness(r) ==
  /\ WF_vars(Local(r) /\ Observe)
  /\ WF_vars(mode[r] = "unary" /\ Responded(r, FALSE, FALSE) /\ Observe)
  /\ WF_vars(Cancellation(r) /\ Observe)

\* Upstream may stay silent for ever: nothing in the code times a request out.
SilentUpstreamSpec == Spec /\ \A r \in Requests : LocalFairness(r)

\* Upstream answers and ends what it streams.
UpstreamAnswers == \A r \in Requests : WF_vars(Upstream(r) /\ Observe)
-----------------------------------------------------------------------------
TypeOK ==
  /\ accounts \in [AccountIDs -> Row(Nat, Balances) \cup {NoAccount}]
  /\ stats \in [AccountIDs -> Tracker]
  /\ now \in Nat /\ edits \in Nat
  /\ phase \in [Requests -> Phases]
  /\ mode \in [Requests -> Modes]
  /\ attempt \in [Requests -> 0 .. (MaxAttempts - 1)]
  /\ tried \in [Requests -> SUBSET AccountIDs]
  /\ \A r \in Requests :
       phase[r] \in {"opening", "streaming"} => held[r] \in [id : AccountIDs, key : Nat]
  /\ ctxDone \in [Requests -> BOOLEAN]
  /\ steady \in [Requests -> SUBSET AccountIDs]

\* The accounts a request has sent itself to, and how often it did.
Attempted(r) ==
  {history[r][i].id : i \in DOMAIN history[r]}
    \cup (IF phase[r] = "opening" THEN {held[r].id} ELSE {})

Attempts(r) == Len(history[r]) + (IF phase[r] = "opening" THEN 1 ELSE 0)

\* A request comes back to an account only after it has tried every account
\* that was fit all along: dropping the exclusion (retry.go:152-162) never
\* costs another account its turn.
NoAccountPassedOver ==
  \A r \in Requests :
    Attempts(r) > Cardinality(Attempted(r)) => steady[r] \subseteq Attempted(r)

\* While some account stays fit and the client stays, retryable failures cost
\* a request nothing but its budget: it fails only after all three attempts
\* (retry.go:136-161; the exclusion must not use the budget up when the pool
\* is a single account).
BudgetIsUsed ==
  \A r \in Requests :
    /\ phase[r] = "done" /\ ~ctxDone[r] /\ steady[r] # {}
    /\ \A i \in DOMAIN history[r] : history[r][i].retryable
    => Len(history[r]) = MaxAttempts

InWindow(at) == BucketOf(at) > BucketOf(now) - BucketCount

Finishes(a, classes) ==
  {x \in Requests \X (1 .. MaxAttempts) :
     LET past == history[x[1]] IN
     /\ x[2] \in DOMAIN past
     /\ past[x[2]].id = a /\ past[x[2]].class \in classes
     /\ InWindow(past[x[2]].at)}

\* The pool's counters are the history: every opened attempt and every
\* failure that proves an account broken counts once, for the account that
\* was tried, for as long as the window lasts; no other failure counts, and
\* neither retries nor concurrent requests count twice (retry.go:64-81).
StatsAreHistory ==
  \A a \in AccountIDs :
    Totals(rollLocked(stats[a], now)) =
      [reqs |-> Cardinality(Finishes(a, {"ok", "account"})),
       errs |-> Cardinality(Finishes(a, {"account"}))]

\* What a request that opened nothing may have failed with: its last attempt,
\* an empty pool before the first one, or the client's departure.
EndedBy(r) ==
  LET n == Len(history[r])
  IN  (IF n = 0 THEN {NoneHealthy} ELSE {history[r][n].failure})
        \cup (IF ctxDone[r] THEN {CtxError} ELSE {})

\* The one row a request leaves in the traffic log tells the truth about its
\* attempts (anthropic.go:135-198, openai.go:239-314).  Nothing follows an
\* opened attempt, and the row has its account and the Retried flag; a request
\* that opened nothing has neither, and the status of the failure that ended
\* it.  That status is 200 only if upstream itself wrote 200 into the error
\* frame the request failed with (retry.go:608-617).
EntryTellsTheTruth ==
  \A r \in Requests :
    LET n == Len(history[r])
        opened == \E i \in 1 .. n : history[r][i].class = "ok"
    IN  /\ entry[r] # NoEntry <=> phase[r] = "done"
        /\ \A i \in 1 .. (n - 1) : history[r][i].retryable
        /\ (phase[r] = "done" /\ opened) =>
             /\ history[r][n].class = "ok"
             /\ entry[r].account = history[r][n].id
             /\ entry[r].retried <=> n > 1
        /\ (phase[r] = "done" /\ ~opened) =>
             /\ entry[r].account = -1 /\ ~entry[r].retried
             /\ \E err \in EndedBy(r) : entry[r].status = httpStatusFromErr(err)
             /\ entry[r].status = 200 =>
                  \E frame \in Frames : history[r][n].failure = streamErrorToAPIError(frame)

\* A request whose upstream answers ends, however the accounts change while
\* it runs (retry.go:136-269: the loop is bounded, the second Pick is not
\* repeated).
RequestsEnd ==
  UpstreamAnswers =>
    \A r \in Requests : phase[r] # "idle" ~> phase[r] = "done"

\* A request whose client left ends even when upstream never says another
\* word (retry.go:138-140, client.go:134: every wait is on the context).
CancelledRequestsEnd ==
  \A r \in Requests : ctxDone[r] ~> phase[r] = "done"
=============================================================================
