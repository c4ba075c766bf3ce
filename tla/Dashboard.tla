----------------------------- MODULE Dashboard ------------------------------
(***************************************************************************)
(* internal/server/events.go and dashboard.go: changes of the state, the   *)
(* events that announce them, and the pages that fetch the state again     *)
(* when they hear one (dashboard.html).                                    *)
(*                                                                         *)
(* What a page shows is two version numbers, of the account cards and of   *)
(* the traffic rows.  Every handler commits its change first and           *)
(* broadcasts afterwards.  Broadcast walks the subscribers under the read  *)
(* lock; a page that goes away unsubscribes under the write lock and       *)
(* closes its channel.                                                     *)
(***************************************************************************)
EXTENDS Naturals, FiniteSets, Sequences

CONSTANTS
  CardChangers,   (* pause, resume, add, the credit poller's refresh       *)
  Deleters,       (* HandleDeleteAccount of the account they change        *)
  Recorders,      (* RecordTraffic                                         *)
  Pages,          (* open dashboards                                       *)
  Capacity        (* make(chan Event, 16)                                  *)

Changers == CardChangers \cup Deleters \cup Recorders

ASSUME CapacityAssumption == Capacity \in Nat \ {0}
ASSUME ChangersAssumption ==
  /\ CardChangers \cap Deleters = {}
  /\ Recorders \cap (CardChangers \cup Deleters) = {}

VARIABLES
  version,      (* kind -> changes of that kind committed so far           *)
  deleted,      (* the account is gone                                     *)
  at,           (* changer -> "idle", "committed", "sending", "done"       *)
  left,         (* changer -> subscribers Broadcast has yet to serve       *)
  subscribers,  (* pages in Broadcaster.subscribers                        *)
  closed,       (* pages whose channel is closed                           *)
  queue,        (* page -> the events in its channel                       *)
  sse,          (* page -> "none", "open" (ServeSSE), "ended"              *)
  loading,      (* page -> what #accounts asked for when it was loaded     *)
  request,      (* page -> the request of document.body under way          *)
  waiting,      (* page -> the kind queued behind it, or "none"            *)
  view,         (* page -> the cards' version it shows, 0 before any       *)
  owed,         (* ghost: page -> the last version of the cards committed  *)
                (* while it was subscribed                                 *)
  excused,      (* ghost: page -> the version owed when it last lost news  *)
                (* of the cards                                            *)
  panic         (* an event was sent on a closed channel                   *)

changes == <<version, deleted, at, left>>
browser == <<loading, request, waiting>>
dashboardVars ==
  <<changes, subscribers, closed, queue, sse, browser, view, owed, excused, panic>>

Kinds == {"account-update", "traffic-row"}
Kind(c) == IF c \in Recorders THEN "traffic-row" ELSE "account-update"
Cards == version["account-update"]

\* A request and, once the server has answered it, the version it was given.
Asked(kind) == [kind |-> kind, given |-> 0]
NoRequest   == Asked("none")

\* mu.RLock is held by every Broadcast under way.
ReadLocked == \E c \in Changers : at[c] = "sending"

DashboardInit ==
  /\ version = [k \in Kinds |-> 1]
  /\ deleted = FALSE
  /\ at = [c \in Changers |-> "idle"]
  /\ left = [c \in Changers |-> {}]
  /\ subscribers = {} /\ closed = {}
  /\ queue = [p \in Pages |-> <<>>]
  /\ sse = [p \in Pages |-> "none"]
  /\ loading = [p \in Pages |-> Asked("account-update")]
  /\ request = [p \in Pages |-> NoRequest]
  /\ waiting = [p \in Pages |-> "none"]
  /\ view = [p \in Pages |-> 0]
  /\ owed = [p \in Pages |-> 0]
  /\ excused = [p \in Pages |-> 0]
  /\ panic = FALSE
-----------------------------------------------------------------------------
(* A handler.                                                              *)

\* The update; on an account that is gone it changes nothing and the handler
\* ends.
Commit(c) ==
  /\ at[c] = "idle"
  /\ c \in Recorders \/ ~deleted
  /\ version' = [version EXCEPT ![Kind(c)] = @ + 1]
  /\ deleted' = (deleted \/ c \in Deleters)
  /\ at' = [at EXCEPT ![c] = "committed"]
  /\ owed' = [p \in Pages |-> IF p \in subscribers /\ c \notin Recorders
                              THEN Cards' ELSE owed[p]]
  /\ UNCHANGED <<left, subscribers, closed, queue, sse, browser, view, excused, panic>>

\* Mutant: a removal announces the card it no longer finds.
NothingToShow_NorForRemovals(c) ==
  /\ at[c] = "committed" /\ c \notin Recorders /\ deleted
  /\ at' = [at EXCEPT ![c] = "done"]
  /\ UNCHANGED <<version, deleted, left, subscribers, closed, queue, sse, browser,
                 view, owed, excused, panic>>

\* The snapshot taken for the broadcast no longer has the account.
NothingToShow(c) ==
  /\ at[c] = "committed" /\ c \in CardChangers /\ deleted
  /\ at' = [at EXCEPT ![c] = "done"]
  /\ UNCHANGED <<version, deleted, left, subscribers, closed, queue, sse, browser,
                 view, owed, excused, panic>>

BeginBroadcast(c) ==
  /\ at[c] = "committed"
  /\ at' = [at EXCEPT ![c] = "sending"]
  /\ left' = [left EXCEPT ![c] = subscribers]
  /\ UNCHANGED <<version, deleted, subscribers, closed, queue, sse, browser, view,
                 owed, excused, panic>>

HasRoom(p) == Len(queue[p]) < Capacity

\* Mutant: the send waits for the subscriber.
SendTo_Waits(c, p) ==
  /\ at[c] = "sending" /\ p \in left[c] /\ HasRoom(p)
  /\ left' = [left EXCEPT ![c] = @ \ {p}]
  /\ queue' = [queue EXCEPT ![p] = Append(@, Kind(c))]
  /\ UNCHANGED <<version, deleted, at, subscribers, closed, sse, browser, view, owed,
                 excused, panic>>

Excuse(p) == excused' = [excused EXCEPT ![p] = owed[p]]

\* A full channel loses the event; that is news lost unless the channel still
\* holds an event of the same kind.
SendTo(c, p) ==
  /\ at[c] = "sending" /\ p \in left[c]
  /\ left' = [left EXCEPT ![c] = @ \ {p}]
  /\ IF HasRoom(p)
     THEN queue' = [queue EXCEPT ![p] = Append(@, Kind(c))] /\ UNCHANGED excused
     ELSE /\ IF Kind(c) = "account-update"
                  /\ \A i \in DOMAIN queue[p] : queue[p][i] # Kind(c)
             THEN Excuse(p) ELSE UNCHANGED excused
          /\ UNCHANGED queue
  /\ panic' = (panic \/ p \in closed)
  /\ UNCHANGED <<version, deleted, at, subscribers, closed, sse, browser, view, owed>>

EndBroadcast(c) ==
  /\ at[c] = "sending" /\ left[c] = {}
  /\ at' = [at EXCEPT ![c] = "done"]
  /\ UNCHANGED <<version, deleted, left, subscribers, closed, queue, sse, browser,
                 view, owed, excused, panic>>
-----------------------------------------------------------------------------
(* ServeSSE of one page.                                                   *)

\* Mutant: the subscribers are changed without the lock.
MayWrite_Always == TRUE

MayWrite == ~ReadLocked

Subscribe(p) ==
  /\ sse[p] = "none" /\ MayWrite
  /\ sse' = [sse EXCEPT ![p] = "open"]
  /\ subscribers' = subscribers \cup {p}
  /\ UNCHANGED <<changes, closed, queue, browser, view, owed, excused, panic>>

\* Mutant: "queue first".
Queue_First(p, kind) ==
  /\ waiting' = [waiting EXCEPT ![p] = IF @ = "none" THEN kind ELSE @]
  /\ UNCHANGED excused

\* "queue last": what was queued before is dropped.
Queue(p, kind) ==
  /\ waiting' = [waiting EXCEPT ![p] = kind]
  /\ IF waiting[p] = "account-update" /\ kind # "account-update"
     THEN Excuse(p) ELSE UNCHANGED excused

\* The page hears an event and asks for the part it names.
Hear(p, kind) ==
  IF request[p] = NoRequest
  THEN request' = [request EXCEPT ![p] = Asked(kind)] /\ UNCHANGED <<waiting, excused>>
  ELSE Queue(p, kind) /\ UNCHANGED request

\* ServeSSE writes what it takes from the channel; the connection in between
\* only delays it.
Forward(p) ==
  /\ sse[p] = "open" /\ queue[p] # <<>>
  /\ queue' = [queue EXCEPT ![p] = Tail(@)]
  /\ Hear(p, Head(queue[p]))
  /\ UNCHANGED <<changes, subscribers, closed, sse, loading, view, owed, panic>>

\* The request's context is done, or a write fails: the deferred cancel.
Unsubscribe(p) ==
  /\ sse[p] = "open" /\ MayWrite
  /\ sse' = [sse EXCEPT ![p] = "ended"]
  /\ subscribers' = subscribers \ {p}
  /\ closed' = closed \cup {p}
  /\ UNCHANGED <<changes, queue, browser, view, owed, excused, panic>>
-----------------------------------------------------------------------------
(* The rest of the browser.                                                *)

\* HandleAccounts or HandleTraffic answers from a snapshot.
Given(r) == [r EXCEPT !.given = version[r.kind]]

Answer(p) ==
  /\ request[p] # NoRequest /\ request[p].given = 0
  /\ request' = [request EXCEPT ![p] = Given(@)]
  /\ UNCHANGED <<changes, subscribers, closed, queue, sse, loading, waiting, view,
                 owed, excused, panic>>

AnswerLoad(p) ==
  /\ loading[p] # NoRequest /\ loading[p].given = 0
  /\ loading' = [loading EXCEPT ![p] = Given(@)]
  /\ UNCHANGED <<changes, subscribers, closed, queue, sse, request, waiting, view,
                 owed, excused, panic>>

\* Whatever was asked for first, the cards that arrive replace those shown.
Show(p, n) ==
  /\ view' = [view EXCEPT ![p] = n]
  /\ IF n < view[p] THEN Excuse(p) ELSE UNCHANGED excused

\* The answer is swapped in and the request that waits is made.
Swap(p) ==
  /\ request[p].given > 0
  /\ IF request[p].kind = "account-update"
     THEN Show(p, request[p].given) ELSE UNCHANGED <<view, excused>>
  /\ request' = [request EXCEPT ![p] = Asked(waiting[p])]
  /\ waiting' = [waiting EXCEPT ![p] = "none"]
  /\ UNCHANGED <<changes, subscribers, closed, queue, sse, loading, owed, panic>>

SwapLoad(p) ==
  /\ loading[p].given > 0
  /\ Show(p, loading[p].given)
  /\ loading' = [loading EXCEPT ![p] = NoRequest]
  /\ UNCHANGED <<changes, subscribers, closed, queue, sse, request, waiting, owed,
                 panic>>

Broadcast(c) ==
  \/ NothingToShow(c)
  \/ BeginBroadcast(c)
  \/ \E p \in Pages : SendTo(c, p)
  \/ EndBroadcast(c)

Page(p) == Forward(p) \/ Answer(p) \/ Swap(p) \/ AnswerLoad(p) \/ SwapLoad(p)

DashboardNext ==
  \/ \E c \in Changers : Commit(c) \/ Broadcast(c)
  \/ \E p \in Pages : Subscribe(p) \/ Page(p) \/ Unsubscribe(p)

DashboardSpec == DashboardInit /\ [][DashboardNext]_dashboardVars

\* A handler that has committed runs on; nothing is assumed of the pages.
SlowPagesSpec == DashboardSpec /\ \A c \in Changers : WF_dashboardVars(Broadcast(c))

\* ServeSSE and the browser run as well.
PagesRun == \A p \in Pages : WF_dashboardVars(Page(p))
-----------------------------------------------------------------------------
\* No event is ever sent on the channel of a page that went away, however
\* broadcasts and departures interleave; in Go that send is a panic
\* (events.go:43-49 against 55-65).
NeverSendsOnClosed == ~panic

\* An answer that will bring the cards up to what is owed: it is still to be
\* given, or is and waits to be swapped in.
Brings(p, r) == r.kind = "account-update" /\ (r.given = 0 \/ r.given >= owed[p])

\* Cards that are out of date, because of a change made while the page was
\* subscribed, are about to be replaced: the answer is on its way, a request
\* waits its turn, an event is in the channel or still to be broadcast, also
\* when the account vanished before the broadcast.  News of the cards is lost
\* in three ways only: in a channel full of traffic rows, a dropped event
\* that has another one of its kind before it doing no harm; when a fetch of
\* the rows takes the place of one of the cards behind the request under way;
\* and when cards are replaced by older ones that took longer.  The next
\* change of the cards makes good for it (events.go:53-65,
\* dashboard.go:154-218, dashboard.html:110-112, 260-271).
NewsIsOnItsWay ==
  \A p \in subscribers :
    view[p] < owed[p] /\ excused[p] < owed[p] =>
      \/ Brings(p, loading[p]) \/ Brings(p, request[p])
      \/ waiting[p] = "account-update"
      \/ \E i \in DOMAIN queue[p] : queue[p][i] = "account-update"
      \/ \E c \in Changers \ Recorders : at[c] = "committed" \/ p \in left[c]

\* "never blocks the broadcaster" (events.go:19-22): a handler that has
\* committed a change finishes though no page reads its channel.
BroadcastsReturn == \A c \in Changers : at[c] = "committed" ~> at[c] = "done"

\* A page that runs and stays subscribed comes to show every change of the
\* cards made since it subscribed, or it lost news of that change in one of
\* the three ways (events.go:79-120, dashboard.html:256-276).
SubscribersCatchUp ==
  PagesRun =>
    \A p \in Pages :
      view[p] < owed[p] ~>
        (view[p] >= owed[p] \/ sse[p] = "ended" \/ excused[p] >= owed[p])

\* dashboard.html:249-250: the page "re-trigger[s] HTMX re-fetches on
\* account-update / traffic-row events": once it has heard of a change, a
\* fetch that waits its turn brings it.
EventsAreFetched ==
  PagesRun =>
    \A p \in Pages, n \in 1 .. Cardinality(Changers) + 1 :
      waiting[p] = "account-update" /\ owed[p] = n ~> view[p] >= n
=============================================================================
