# cmdgo: a verification project

TLA+ models of cmdgo, the proxy that serves Command Code accounts through the
OpenAI and Anthropic APIs, with TLC runs on small instances and TLAPS proofs.
Every module is translated from the Go source under `src/`; `PROJECT.json` maps
each definition to the lines it models.

    tlc -workers 2 -config Stats.cfg MCStatsWindow      # one run
    tlapm StoreProofs.tla                               # one module of proofs

A definition named `<operator>_<what is wrong>` (for example `Stages_NoSync`)
is a mutant: the operator as a plausible bug would have it. It is used by no
specification. `PROJECT.json` pairs one with every checked property; with it in
place of the operator, the run finds the property violated.

## Inventory

| Component | Source | State | Operations |
|---|---|---|---|
| Rolling statistics | `internal/pool/health.go` | 6 buckets of 50 s per account, `head` | Record, Snapshot, ErrorRate |
| Account pool | `internal/pool/pool.go` | map of statistics by user ID | Pick, MarkSuccess, MarkError |
| Credit poller | `internal/pool/sync.go` | none of its own | Run, cycle |
| Retry runner, failure classes | `internal/proxy/retry.go` | attempt, exclusion, last error of one request | Execute, ExecuteAccumulated, classifiers, clientGone |
| Handlers and translators | `internal/proxy/{anthropic,openai,stream,sse}.go` | block index, open block, usage, sticky write error | ServeHTTP, streamCCTo*, AccumulateStream, build* |
| State store | `internal/store/{store,state,token}.go` | the document in memory, `state.json` | New/load, Snapshot, Update, EnsureProxyToken, RotateProxyToken |
| Account rows | `store/traffic.go`, `server/oauth.go`, `server/dashboard.go` | `State.Accounts` | addAccount, SetAccountCredits, SetAccountPaused, DeleteAccount |
| Traffic log | `store/traffic.go`, `server/dashboard.go` | `State.TrafficLog` | RecordTraffic, AppendTrafficLog, TrafficLog |
| Dashboard events | `server/events.go`, `dashboard.html` | subscribers, one channel of 16 each | Subscribe, Broadcast, ServeSSE, the page's fetches |
| Request conversion | `internal/proxy/{anthropic,openai,build}.go` | none | convert*Messages, convert*Content, normalize*, BuildCCBody |
| OAuth state tokens | `internal/cc/auth.go`, `server/oauth.go` | token -> when it was issued | Generate, Consume, gcLocked, HandleOAuthStart, HandleOAuthCallback |
| Upstream client | `internal/cc/client.go` | none | Generate, Whoami, BillingCredits |
| Stream scanner | `internal/cc/sse.go` | the pending `data:` lines, a sticky error | Next, flush |
| Token check | `server/middleware.go` | none | Require |
| Start and shutdown | `main.go` | the signal's context, the listener, open handlers | run |

How they interact. A request goes through the token check, is converted, and the
runner asks the pool for an account; the pool reads the store's snapshot and its
own statistics; the runner calls upstream and hands the opened stream to a
translator, or drains it for a unary answer; the handler marks the account and
records a traffic row, which is stored and broadcast to the dashboards. The
poller and the dashboard's handlers change the account rows through the same
`Store.Update`. Shared state is guarded by one lock each: the store, the pool's
map, each tracker, the broadcaster.

What is hard: requests that retry while accounts change underneath them; a wall
clock that steps; a file that must survive deaths between two file operations;
writers of one row whose data is older than the row; streams cut anywhere and
clients that leave at any time; subscribers that come, go and stop reading;
conversations that go through two conversions on every turn. The
list, with lines, is `hazards` in `PROJECT.json`. What makes each component
correct is listed with its run below.

## Modules

| Module | Models | EXTENDS / uses |
|---|---|---|
| `RollingStats` | health.go as a value and its operations | |
| `OutcomeWindow` | abstract: a ledger of outcomes and a view of its end | |
| `StatsWindow`, `MCStatsWindow` | one tracker under a clock | `RollingStats`; implements `OutcomeWindow` |
| `StatsWindowProofs` | the theorems | `StatsWindow`, `FoldLemmas` |
| `Pool` | Pick and the marks, as operators | `RollingStats` |
| `FailureClass` | the classifiers of retry.go | |
| `Runner`, `MCRunner` | concurrent requests over a pool that changes | `Pool`, `FailureClass` |
| `RunnerProofs` | the theorems about it | `Runner`, `FoldLemmas` |
| `Translate` | both translators and AccumulateStream, event by event | |
| `Stream` | one opened stream: upstream, loop, writer, client, row | `Translate` |
| `StreamProofs` | the theorems about it | `Stream`, `FoldLemmas` |
| `StateRegister` | abstract: a register with all-or-nothing updates | |
| `StateFile`, `MCStateFile` | store.go and token.go down to file operations | implements `StateRegister` |
| `Accounts`, `MCAccounts` | everybody who writes account rows | |
| `TrafficLog` | stamping, storing, trimming, listing rows | |
| `Shutdown` | the process around the log: listener, signal, dashboards | `TrafficLog` |
| `StoreProofs` | the theorems about the store and the log | `StateFile`, `Shutdown`, TLAPS |
| `Dashboard` | handlers, broadcaster, pages | |
| `AccountsProofs` | the theorems about the rows and the pages | `Accounts`, `Dashboard`, TLAPS |
| `OneTimeTokens` | abstract: tokens that are remembered for ever | |
| `OAuthStates` | the store of state tokens and the two handlers | implements `OneTimeTokens` |
| `OAuthStatesProofs` | the theorems about them | `OAuthStates`, TLAPS |
| `Scanner` | Scanner.Next, line by line, as operators | |
| `Convert` | requests of both protocols to the upstream body, as operators | |
| `Conversation` | client, conversion, upstream, scanner and unary answer, turn after turn | `Convert`, `Scanner`, `Translate` |
| `ConversationProofs` | the theorems about the reader and the way there and back | `Conversation`, `FoldLemmas` |
| `FoldLemmas` | facts about sums and flattened sequences | TLAPS |

### How state and actions correspond to the code

**RollingStats, StatsWindow.** Instants are naturals, a bucket start is held as
its number, so `cur.Sub(head)/rollingBucketDuration` is a subtraction. Record
and Snapshot hold the tracker's mutex and are one action each. `ClockMoves` is
the machine's wall clock: `Truncate` strips the monotonic reading, so what the
code compares may step back. The ghosts `log` and `ledger` count outcomes by the
instant and by the bucket they were filed under.

**Pool, Runner.** `Candidates` is the health filter of Pick, `Choice` its
affinity; looking at an error rate rolls the tracker, as in the code. One action
per step of the retry loop: the wait, Pick (found, or nobody: drop the exclusion
once, or fail), the ways Generate and the first read may end, the hand-over, the
end of the response. Execute and ExecuteAccumulated run the same loop; `mode`
tells them apart where they differ. Pick's snapshot and its reads of the error
rates are one step: rows and statistics are changed by different actors, so a
Pick that sees older rows with newer statistics is a Pick before the change of
the rows and after that of the statistics.
A text is abstracted to what the classifiers search in it. The account rows are
changed by pause, removal, refresh and the poller (`Edit`), statistics outlive a
removed row (pool.go:139-148). The nil-runner fallbacks, used by tests only, and
the failure of NewSSEWriter, impossible with net/http's writer, are left out.
What `Accounts` and `Runner` say of the rows is the same code at two grains.

**Translate, Stream.** An event is a type and a numbered piece that stands for
its text, tool call or usage. Each event makes the frames the code writes, which
`WriteFrame` puts out one by one, so the client can leave between any two; after
that a write succeeds into a buffer or fails and stays failed. The first event
is any but `error`, which is all that the runner keeps back (retry.go:216-259).
After that upstream may send `start`, pieces and others in any order, but
`finish` and `error` come last, and `reasoning-end` comes first or after a
`reasoning-delta` (docs/cc-api.md:350-371 promises more: `start` is first).
Outside that, text / reasoning-end / text is one text block in the streamed
answer and two in the accumulated one. An answer is `Opened` by its first
`start`, delta or tool call; neither translator writes message_start or a role
for a `finish` or an end that comes before. The clients (`AnthropicReceives`,
`OpenAIReceives`) are external: what the SDKs of the two protocols accept.

**StateFile.** `stage` walks through the file operations of persistLocked, each
of which may fail. `ProcessDies` loses memory, keeps files and forgets the
waiting client; `PowerFails` may also take the directory entry back to any file
it named since the power last failed (the directory is not synced after the
rename) and tears a file that was not synced. Removing the temporary file always works:
the code ignores the error, and the file would then stay. Rows and tokens stand for what
clients add; the version and the settings for what load fills in.

**Accounts.** The calls to Command Code and the store update are separate
actions, so anything may happen between being told and writing. Users only spend.
TouchAccountLastUsed writes a field only the card shows, and is left out.

**TrafficLog, Dashboard.** A row is stamped before the store's lock is taken.
What a page shows is the version of the cards. Broadcast walks the subscribers
of its read lock one at a time; Subscribe and the deferred cancel need the write
lock. A page that hears an event fetches (`Hear`). Both listeners call
htmx.ajax without a source, so their requests belong to document.body: one is
under way (`request`), one waits (`waiting`), and a later one takes the waiting
one's place (`Queue`), whichever part of the page it is for. `#accounts` has a
source of its own and loads beside them (`loading`); what arrives last is shown.
The server answers at some moment between asking and swapping in. htmx is
modelled from its version 2.0.10 (layout.html:96). An EventSource that reconnects
is a new page. Not modelled: a fetch that fails, the fetches after the user's own
clicks (dashboard.html:326 queues like the listeners'), the writer preference of
RWMutex, and an account added again after its removal.

**Shutdown.** run's select, with either case taken when both are ready, and
srv.Shutdown, which closes the listener and waits for the handlers or for 10 s.
The handlers are those of `TrafficLog` and one ServeSSE per dashboard, whose
context nothing but its own client cancels: BaseContext is Background. After
`Exit` no other goroutine takes a step. A listener that starts after Shutdown
has begun gets ErrServerClosed.

**OAuthStates.** Generate and Consume hold the mutex and are one step each with
their handler, but read the clock twice; `now` may move on between the readings
(`Later`). The collection compares with `Before`, the verdict with `<`: a token
just as old as the TTL is kept and refused. A callback that returns before
Consume looks for its token (`ReturnEarly`) is dismissed: no token is asked about
and none is spent. One that asks is refused or admitted, and `presented` records
the token it asked about. What addAccount then does is the subject of `Accounts`.
In `OneTimeTokens` too a dismissal is a verdict of its own, so a refusal always
belongs to a token, and only one that was never issued, is used or is too old: a
store that forgets or refuses a good token does not implement it.

**Scanner, Convert, Conversation.** A line is its kind and, when it carries
something, a part of the JSON text of an event; JSON parses when all parts of
one event are there, in order. One step of `Conversation` is one line from
upstream, one turn of Next's loop and, when that yields an event, one turn of
AccumulateStream's. A text is the sequence of the pieces it was put together
from, so separators and JSON escaping are left out and concatenation is `\o`.
The client is an SDK that appends the answer to its messages as it got it. What
upstream is shown is compared with `said` and `instructed`, which hold what user
and upstream really said, by the rules of each protocol (`TurnItems`): the
Anthropic one drops pictures and keeps thinking, the OpenAI one the reverse and
puts calls after the text of an answer. An attempt that fails is asked for
again; whether by the runner or the client is the same here. `Admitted` are the
refusals of ServeHTTP; they change nothing.

## Runs

Times are with two workers; every passing run explores all states in its bounds.

| Run | Shows | Bounds, and why they are enough |
|---|---|---|
| `Stats` (30 s) | `WindowMatchesLedger`, `ImplementsWindow`: the shifted array is a view of a ledger that forgets nothing, whatever the clock does. `SnapshotIsTheWindow`: while the clock was never set back, a snapshot counts all of the last window and nothing older. `NotForgottenEarly`: a clock set back may lengthen an eviction, never hide a recent failure. | 3 buckets of 2 instants over 8 instants: slide by one, by two, and empty. Proved for all bounds. |
| `RunnerRetry` (1 min) | `NoAccountPassedOver`: an account is tried twice only when every account that was fit all along has been tried. `BudgetIsUsed`: while some account stays fit, only three retryable failures make a request fail. `RequestsEnd` if upstream answers; `CancelledRequestsEnd` though it never does. | 3 accounts for 3 attempts, one paused and one without credit at the start, 2 edits (pauses, removals, refreshes, balances lost), one error of each class and retry decision. |
| `RunnerStats` (2 min) | `StatsAreHistory`: the counters are exactly the opened attempts and the account failures of the window, each once. `EntryTellsTheTruth`: the row has the account and Retried of the attempt that opened, or the status of the failure that ended the request. | 2 concurrent requests, 2 accounts, a window of one instant that passes, error frames that carry 200. |
| `StateFile` (15 s) | `ImplementsRegister`: updates are all or nothing and answered truly; a power failure goes back to an earlier whole content at worst. `NeverTorn`, `NoLitter`, `ReadersSeeTheFile` also after failed writes, `RetiredTokenRejected`. | 2 updates, 2 failing operations, 2 deaths at any point: a failure or a death during the recovery from another. 4 kinds of file at the start. |
| `Stream` (1.5 min) | `ClientAccepts`: the SDK accepts every frame of an answer that was opened. `StreamedEqualsAccumulated`: stream=true and stream=false answer alike, event by event. `CompletionIsHonest`: message_stop or the chunk with finish_reason and usage reaches only clients that have all of a finished answer, and every client that stays to its end; `[DONE]` without that chunk also ends a truncated body, and says no more. `RowMatchesStream`: the row has the usage the client saw and blames the right side. `CancelledStreamEnds`. | 4 events: three blocks in a row, or a block, a change of block and finish; cut after any event by end, break or reset. |
| `StreamFinish` | violated: `FinishEndsTheStream`, see Findings | 3 events |
| `Dashboard` (1.5 min) | `NeverSendsOnClosed` (a panic in Go), `BroadcastsReturn` though no page reads, `NewsIsOnItsWay` and `SubscribersCatchUp`: news of a card is lost only to a channel full of traffic rows, to a fetch of the rows that displaces a waiting one, or to an older answer that arrives later, and the next change makes good for it. | Two changes, a removal and a traffic row against a channel of one: it overflows with either kind, and a request is under way, one waits and a third comes. One page: pages share nothing but the lock. |
| `DashboardFetch` | violated: `EventsAreFetched`, see Findings | two changes, a traffic row |
| `Accounts` (2 min) | `RowsAreLastWrites`: one row per user, nobody undoes a pause, a key or a removal. `NoInventedBalance`, `BalanceIsNotForgotten`: a row's balance was once true, unknown is not $0 and known does not become unknown. `CreditsConverge`. | Two additions of one user, another user's row, 2 edits, a balance that falls once. |
| `Shutdown` (15 s) | `LogIsTheEnd`: trimming and listing lose and reorder nothing, failed writes and a process that is cut off included. `SignalEndsTheProcess`: streams and dashboards that never end do not keep it up. | A limit of 3, logs from empty to longer than the limit, 3 rows, one dashboard that may stay for ever. |
| `OAuth` (2 s) | `ImplementsOneTimeTokens`: whichever token a callback asks about, the store with its collection, deletion and two clock readings admits and refuses as if every token were remembered. `OneAdmissionPerStart`, `StoreTellsTheTruth`, `NothingKeptTooLong`. | 2 tokens, 3 callbacks (two for one token and one for the other), instants before, at and after the TTL. Proved for all bounds. |
| `Conversation` (2 min) | `EventsArrive`: however framed and wherever cut, AccumulateStream gets what was sent whole. `UpstreamIsShownWhatWasSaid`: after the way there and back nothing is lost, moved or put in the other's mouth. `ResultsFollowCalls`: calls and results pair up. `MessagesOnlyGrow`: the prefix that upstream caches stays the same. | 3 turns with 4 pieces: the answer to the first question may be any three pieces of text, thinking and calls, and is converted back twice, or two answers share them, the second after the results of the first. Frames of one part up to one more than the buffer; one keepalive an attempt; one failing attempt a turn. |

`CHECK_DEADLOCK FALSE` stands where the system may stop: all requests are
done, all events sent, no crash left. Bounds in guards: `MaxRecords`,
`MaxTime`, `MaxEdits`, `MaxEvents`, `MaxCrashes`, `MaxFaults`, `Balance0`,
`MaxPieces`, `MaxTurns`, `MaxNoise`, `MaxFailures`.

### Fairness

* A goroutine that can run does (weak fairness of `Local`, `Handler`,
  `Broadcast`, `Poller`, `Page`): the Go scheduler and timers. A cancelled context
  ends the call that waits on it: every upstream call takes the request's
  context (client.go:123-157).
* Upstream owes nothing. Only `RequestsEnd` assumes that it answers, and says so
  in its premise (`UpstreamAnswers`): the HTTP client has no timeout.
* Pages owe nothing to `BroadcastsReturn`; `SubscribersCatchUp` assumes, in its
  premise, that the page and its ServeSSE run and the server answers the page;
  so does `EventsAreFetched`.
* `SignalEndsTheProcess` assumes that main and the goroutine of ListenAndServe
  run and that the 10 s timer fires; nothing of handlers, clients or signals.
* `CreditsConverge` assumes that the billing endpoint and the disk, asked again
  and again for a row, work in the end (strong fairness): the poller asks every
  minute for ever.

## Proofs

Eight modules hold theorems. Where two components share one, their proofs have
nothing to do with each other; `TrafficLog` and `Dashboard` therefore name their
specifications `LogSpec` and `DashboardSpec`.

**Statistics.** `StatsWindowProofs` proves, for every number and length of
buckets (`BucketCount`, `BucketDuration` positive), every set of instants that
contains 0 and any movement of the clock:

* `WindowCorrect`: `Spec => [](TypeOK /\ WindowMatchesLedger)`
* `SnapshotsCountTheWindow`: `Spec => []SnapshotIsTheWindow`
* `NothingIsForgottenEarly`: `Spec => []NotForgottenEarly`
* `ImplementsOutcomeWindow`: `Spec => ImplementsWindow`

That the window matches the ledger is not inductive alone: the bucket numbers
must be naturals, and nothing may be filed ahead of `head` (its second
conjunct), or a slide would bring up old counts. `RollFollowsLedger` does the
work, one case per branch of rollLocked: first use, early return, shift. The
refinement maps each Record to `File`, each Snapshot to `Look`, each movement of
the clock to a stutter. The array may thus shift by any amount: an off-by-one at
a jump of `BucketCount` buckets would break the proof, not only a small
instance.

What a Snapshot sums up is compared with the sums of `log`, by instant. `SInv`
adds that nothing was recorded after the latest instant seen (`ClockFollowed`),
and that what was recorded since the start of a bucket is at most what is filed
in that bucket and later ones, and just that while the clock was never set back
(`CountsAgree`): a clock set back makes Record file an outcome too late, never
too early.

**Store and log.** `StoreProofs` proves, for any clients, any file at the start
that New can read (`InitFilesAssumption`) and any bounds on failures and deaths:

* `StateFileNeverTorn`: `Spec => []NeverTorn`
* `StoreTyped`, `ReadersAgreeWithTheFile`, `NothingIsLeftBehind`,
  `RetiredTokensStayRetired`: `TypeOK`, `ReadersSeeTheFile`, `NoLitter` and
  `RetiredTokenRejected`
* `StoreImplementsRegister`: `Spec => ImplementsRegister`
* `LogHolds`: `ShutdownSpec => []LogIsTheEnd`, for any limits

`NeverTorn` speaks of the file only; a power failure brings back one of `older`,
and the rename brings in the temporary file. The inductive invariant
`FilesWhole` therefore says the same of everything in `older`, and of the
temporary file that it is synced from the stage after Sync to the rename, which
rests on the order of `Stages`. For the others, `StoreInv` adds who may hold
the lock when, and with what temporary file (`WriterAtWork`); that memory
agrees with the file, and during a write, until the rename, the copy kept for
the roll-back does (`MemoryFollowsFile`); how memory differs from that copy by
the update in hand (`UpdateInHand`); that replaced tokens are older than the
file's (`RetiredIsOlder`); and that what is in the file is answered, or its
writer about to return (`AppliedIsAnswered`). The rename is the step of the
register; every other step stutters, is an answer, or is a death. For the log,
cutting it before the next row is added, as the code does, or only afterwards
leaves the same rows (`LastRowsOfAppend`).

**Runner.** `RunnerProofs` proves, for any requests, hashes, accounts, failures
and frames, however often and by whom the accounts are changed:

* `RunnerTyped`: `Spec => []TypeOK`
* `NobodyPassedOver`: `Spec => []NoAccountPassedOver`
* `BudgetHolds`: `Spec => []BudgetIsUsed`
* `RowTellsTheTruth`: `Spec => []EntryTellsTheTruth`
* `CountersAreHistory`: `Spec => []StatsAreHistory`

`RunnerInv` says, phase by phase, how history, attempt number and row belong
together (`Looping`, `Handed`, `Through`), and that what is steady is fit now:
so a request that finds nobody with nobody excluded has no steady account left.
`TurnsInv` adds that a request excludes exactly the accounts it has tried, none
twice (`InTurn`), until an exclusion is dropped, and from then on has tried
whatever is still steady: what is fit and not excluded is a candidate
(`ExcludedOnly`). `ChoiceIsCandidate` shows that the affinity finds somebody,
since every place in the order of the IDs is taken (`EveryRankTaken`). For the
counters, `Reflects` says of each slot of a tracker that it holds as many
outcomes as attempts ended in its bucket, and that none ended ahead of `head`;
an attempt is counted once since it has one place in the
history of one request, and the slots sum to the window (`SumOfClasses`). Of the
statuses only this is assumed (`StatusesAssumption`): an answer that Generate
returns as an error is 400 or more. An error frame may carry any number, 200
too. The IDs are finitely many (`AccountIDsAssumption`).

**Streams.** `StreamProofs` proves, for any events within the grammar above,
whichever comes first, any cut, any client that leaves and both protocols:

* `StreamsAreWellFormed`: `Spec => []ClientAccepts`
* `StreamsAreWhole`: `Spec => []StreamedEqualsAccumulated`
* `CompletionsAreHonest`: `Spec => []CompletionIsHonest`
* `RowsMatchStreams`: `Spec => []RowMatchesStream`

The client folds the frames it receives, but the frames of one event are still
under way when the next state is looked at. So the proof speaks of a relation,
`Becomes(pr, U, c, p, d)`: the client `c`, given the frames `p`, accepts them all
and becomes `d`, with usages from `U`. The invariant `Served` says that the
client, once it has read what the writer still holds, is at `Place`: its open
block is the translator's `current` and has the translator's index (`InStep`),
and the blocks it holds are those of AccumulateStream for the events read so far (`Matched`; in
the OpenAI protocol, which has no blocks, their pieces kind by kind,
`OpenAIMatched`). One lemma per kind of event says that its frames lead from one
such place to the next. An answer that has not been opened is in one of two other
phases (`Phases`): nothing was written and nothing has happened (`Blank`), or it
has ended and its last words are refused by a client that waits for the first
frame (`Refused`). `LogOK` and `LoopOK` are the grammar of upstream and the
place of the loop in it, `Told` and `Kept` what the client was told of usage and
end, and what the row kept of it. A client that has left has not read what is
pending; then some client would be at `Place`.

**Rows and pages.** `AccountsProofs` proves, for any users, additions, edits and
balances:

* `RowsAreRight`: `Spec => [](TypeOK /\ RowsAreLastWrites)`
* `BalancesAreReal`: `Spec => []NoInventedBalance`
* `BalanceStaysKnown`: `Spec => BalanceIsNotForgotten`

and for any handlers, pages and capacity:

* `ClosedChannelsAreSafe`: `DashboardSpec => []NeverSendsOnClosed`
* `NewsArrives`: `DashboardSpec => []NewsIsOnItsWay`

`RowsInv` says that no two rows have one ID (without it, a loop that stops at
the first row of an ID would miss the other), that the ghost `truth` holds for
exactly the users who have a row, and of the balances on their way to a row, in
an addition or the poller's cycle, what `NoInventedBalance` says of the rows.
`ReplaceRow`, `AppendRow` and `RemoveRow` are what a write does to the sequence.
By `LockInv` the channel of a page is closed only when it is not subscribed, and
whoever a broadcast still has to send to is subscribed, because closing needs
the write lock. `NewsInv` is stronger than `NewsIsOnItsWay` at one point: a
handler whose account is gone may have nothing to show, so its announcement does
not count; that of the removal does, which comes after it. An answer still to be
given brings all that is owed, because no more is owed than was committed
(`OwedIsCommitted`).

**Tokens.** `OAuthStatesProofs` proves, for any tokens, callbacks, TTL and clock:

* `StoreIsTruthful`: `Spec => []StoreTellsTheTruth`
* `TokensAdmitOnce`: `Spec => [](TypeOK /\ OneAdmissionPerStart)`
* `OldTokensGo`: `Spec => NothingKeptTooLong`
* `StoreKeepsPromise`: `Spec => ImplementsOneTimeTokens`

The refinement rests on `StoreTellsTheTruth`: what is collected is too old ever
to be admitted again, since the clock is monotonic.

**Conversations.** `ConversationProofs` proves, for either protocol, any size of
the buffer and any number of turns, failures, events and lines of noise:

* `EventsAllArrive`: `Spec => []EventsArrive`
* `MessagesGrow`: `Spec => MessagesOnlyGrow`
* `UpstreamIsShown`: `Spec => []UpstreamIsShownWhatWasSaid`
* `CallsAndResultsPair`: `Spec => []ResultsFollowCalls`

The invariant `ReadInv` says what the scanner holds in the middle of a frame:
exactly the parts sent so far, which are all of an event only when its last part
is among them (`PartsParse`), and nothing between frames. A frame longer than
the buffer ends the attempt, which starts over with an empty scanner.

The others rest on two facts about the operators. The conversions work message
by message, so what a history is converted to is put together from what its
parts are converted to (`ConvertedParts`). And AccumulateStream only ever adds a
block or lengthens the last one (`Accumulates`): whatever can be told of blocks
and of events in the same words (`Suits`) is told alike of an answer and of the
events it was made of (`KeepsTelling`), and is used with the texts, the calls and
the items shown. `Typed` is what messages and blocks are made of; it includes
that a call has a block of its own, which deltas never reach (`AccOK`).
`SentInv` says that what was sent begins what the history is converted to,
and while an answer is read is just that. `ShownInv` says that the history
converted shows what was said, turn by turn. `PairInv` is the pairing, split
where a turn splits it: every gap before an assistant message holds the results
of its calls (`Closed`); the last one too unless the client is composing
(`Settled`), and then the calls of the last message are those the client will
answer (`Open`). Where the results travel, in a user message or in messages of
their own, does not matter: `SpokenResults` is about their order alone.

**`FoldLemmas`** is what these proofs share: sums over finite sets
(`SumFunctionOnSet`) and sequences put together from sequences (`FlattenSeq`).
The library's induction theorems take an operator as a parameter, which the
installed provers cannot instantiate; the same inductions go through in the form
of sets: a set with 0 and every successor up to n has all of `0 .. n` (`UpTo`),
a set with every subset all of whose smaller subsets it has, has them all
(`AllSubsets`), both from the existence of a minimum (`LeastNatural`). Filters
are written as flattened sequences of at most one element each, since the
provers know nothing of `SelectSeq`.

Only model-checked: liveness and ENABLED, which are out of TLAPS's reach.

## Findings

* **Streaming handlers wait past `finish`** (`StreamFinish`). stream.go:145-149
  says finish is terminal and that some upstream paths keep the connection open
  after it; AccumulateStream stops there, both streaming loops read on to EOF.
* **A traffic row drops the cards' fetch** (`DashboardFetch`).
  dashboard.html:249-250 says that the page fetches again on account-update and
  traffic-row events. Both fetches share document.body's queue of one
  (dashboard.html:262, 270), so while one is under way a traffic row drops a fetch
  of the cards that waits, and they stay out of date until the next account event.

Noted while modelling, without a run:

* clientGone looks for "connection reset by peer" in any stream error
  (retry.go:646), so an upstream reset is recorded as 200, against
  retry.go:629-630.
* traffic.go:6-8 fills a row's TS inside the lock so that rows are in the order
  of their timestamps; the only caller fills it before (dashboard.go:242).
* pool.go:52-55 says "error rate < MaxErrorRate5min", pool.go:83 drops only what
  is above.
* anthropic_test.go:438-439 says that upstream expects tool results in a
  separate role=tool message, and anthropic.go:536-539 that they become one; a
  message that holds a text as well is sent as role=user, results and all
  (`allToolResults`).
* A `finish` before any `start`, delta or tool call is written as message_delta
  and message_stop without message_start (anthropic.go:488-510), or as a finish
  chunk without a role (openai.go:485-498); an OpenAI body with none of them ends
  in a lone `[DONE]`. docs/cc-api.md:366 says `start` is first.
* A streamed answer that is cut before `finish` ends like one that was not:
  balanced blocks, or `[DONE]` (anthropic.go:522-529, openai.go:505-506), and is
  recorded as 200 without usage. The unary sibling fails, and retry_test.go:331-336
  and 375-378 call the alternative a lie, of the unary answer only.
* A frame with neither flag nor status is classed transient (retry.go:554),
  "retry" by retry.go:33-35, but not retried (retry.go:592-596). retry.go:122
  speaks of Retry-After, which decodeAPIError drops.
* A change between a page's load and its subscription is announced to nobody
  (dashboard.html:111, 259; events.go:96), against docs/plan.md:138, 467.
* build.go:77-80 wants one session id for one conversation; the hash covers all
  messages but the last, so it changes on every turn.
* docs/plan.md:289 reduces OpenAI content parts to text; a user's content passes
  through as it is (openai.go:527-529). A `developer` message whose content is
  no text becomes an empty instruction, a `system` one an error (openai.go:522,
  570).
* sse.go:45-46 calls every error but io.EOF fatal for the scanner; one of
  json.Unmarshal is not kept in `s.err`. Its callers stop all the same.
* After a power failure an update that was answered may be gone.
* retry.go:244-246 speaks of a synthetic 502 for a frame that is not retried;
  streamErrorToAPIError copies the frame's status (retry.go:608-612). A frame that
  says 200 is answered and recorded as 200.

## Not modelled

Page rendering, the cost table, flags and routing, HTTP headers, CORS, the
access log. Of the conversion: tool schemas, max_tokens beyond its refusal, the
list of ignored fields, the session id. Of the scanner: the `[DONE]` sentinel,
which upstream does not send. These are formats without state. Of the account
rows: TouchAccountLastUsed. `Len` of the token store and of the broadcaster have
no caller outside the tests.

## Plan

Statistics, runner and store came first, since every request depends on them;
then streams, rows and events; then tokens, shutdown, scanner, conversion and
the proofs. What is left:

1. `Accounts` as the environment of `Runner`, in place of `Edit`.
2. `Conversation` with streamed answers in place of unary ones: that the two are
   alike event by event is already proved of `Stream`.
