------------------------------ MODULE Shutdown ------------------------------
(***************************************************************************)
(* The life of the process: run of main.go around the requests that end in *)
(* the traffic log and the dashboards that hang on /api/events.            *)
(*                                                                         *)
(* The HTTP server is net/http's.  Of it the code relies on this: handlers *)
(* run in goroutines of their own with a context that only their own       *)
(* client cancels (BaseContext is Background), Shutdown stops accepting    *)
(* and waits until every handler has returned or its context is over, and  *)
(* the process takes what still runs with it.                              *)
(***************************************************************************)
EXTENDS TrafficLog

CONSTANT Dashboards    (* browsers that may keep /api/events open          *)

VARIABLES
  server,     (* "starting", "accepting", "failed" or "closed"             *)
  main,       (* "running", "draining" (in srv.Shutdown) or "exited"       *)
  signalled,  (* ctx of NotifyContext is done                              *)
  status,     (* what run returned: "none", "ok" or "error"                *)
  arrived,    (* requests whose handler was started                        *)
  watching    (* dashboards whose ServeSSE runs                            *)

process == <<server, main, signalled, status, arrived, watching>>

ShutdownInit ==
  /\ LogInit
  /\ server = "starting" /\ main = "running" /\ signalled = FALSE
  /\ status = "none" /\ arrived = {} /\ watching = {}

Alive == main # "exited"
-----------------------------------------------------------------------------
\* The goroutine of ListenAndServe.  After Shutdown it gets ErrServerClosed
\* at once and nothing is said on errCh; any other error is.
ListenAndServe ==
  /\ Alive /\ server = "starting"
  /\ server' = IF main = "draining" THEN "closed" ELSE "accepting"
  /\ UNCHANGED <<main, signalled, status, arrived, watching>> /\ UNCHANGED logVars

ServeFails ==
  /\ Alive /\ main = "running" /\ server \in {"starting", "accepting"}
  /\ server' = "failed"
  /\ UNCHANGED <<main, signalled, status, arrived, watching>> /\ UNCHANGED logVars

Accepted(r) ==
  /\ Alive /\ server = "accepting" /\ r \notin arrived
  /\ arrived' = arrived \cup {r}
  /\ UNCHANGED <<server, main, signalled, status, watching>> /\ UNCHANGED logVars

\* A handler records its row as the last thing it does.
Handler(r) ==
  /\ Alive /\ r \in arrived
  /\ Stamp(r) \/ AppendTrafficLog(r) \/ AppendFails(r)
  /\ UNCHANGED process

\* ServeSSE ends with its client only; nothing tells it of the shutdown.
Watch(d) ==
  /\ Alive /\ server = "accepting" /\ d \notin watching
  /\ watching' = watching \cup {d}
  /\ UNCHANGED <<server, main, signalled, status, arrived>> /\ UNCHANGED logVars

Leave(d) ==
  /\ Alive /\ d \in watching
  /\ watching' = watching \ {d}
  /\ UNCHANGED <<server, main, signalled, status, arrived>> /\ UNCHANGED logVars
-----------------------------------------------------------------------------
\* SIGINT or SIGTERM.  NotifyContext goes on catching signals until run
\* returns, so a second one does nothing.
Signal ==
  /\ Alive /\ ~signalled
  /\ signalled' = TRUE
  /\ UNCHANGED <<server, main, status, arrived, watching>> /\ UNCHANGED logVars

Exit(code) ==
  /\ main' = "exited" /\ status' = code
  /\ UNCHANGED <<server, signalled, arrived, watching>> /\ UNCHANGED logVars

\* The two cases of the select; when both are ready, either is taken.
BeginShutdown ==
  /\ main = "running" /\ signalled
  /\ main' = "draining"
  /\ server' = IF server = "accepting" THEN "closed" ELSE server
  /\ UNCHANGED <<signalled, status, arrived, watching>> /\ UNCHANGED logVars

ReportServeError == main = "running" /\ server = "failed" /\ Exit("error")

Idle == watching = {} /\ \A r \in arrived : phase[r] = "done"

Drained == main = "draining" /\ Idle /\ Exit("ok")

\* Mutant: Shutdown with a context that has no limit.
Deadline_None == main = "draining" /\ Idle /\ Exit("error")

\* The 10 s of shutdownCtx are over, whatever still runs.
Deadline == main = "draining" /\ Exit("error")

Main == BeginShutdown \/ ReportServeError \/ Drained \/ Deadline

ShutdownNext ==
  \/ ListenAndServe \/ ServeFails \/ Signal \/ Main
  \/ Alive /\ Tick /\ UNCHANGED process
  \/ \E r \in Requests : Accepted(r) \/ Handler(r)
  \/ \E d \in Dashboards : Watch(d) \/ Leave(d)

allvars == <<logVars, process>>

\* A goroutine that can run does, and timers fire.  Nothing is assumed of
\* handlers, clients or signals.
ShutdownSpec ==
  ShutdownInit /\ [][ShutdownNext]_allvars /\ WF_allvars(ListenAndServe) /\ WF_allvars(Main)
-----------------------------------------------------------------------------
\* A signal ends the process, though streams and dashboards stay open for
\* ever and whether or not the server was up yet (main.go:138-144).
SignalEndsTheProcess == signalled ~> main = "exited"
=============================================================================
