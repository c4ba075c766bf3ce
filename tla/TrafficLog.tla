----------------------------- MODULE TrafficLog -----------------------------
(***************************************************************************)
(* The rolling traffic log: RecordTraffic of server/dashboard.go, called   *)
(* by concurrent requests when they end, and AppendTrafficLog and          *)
(* TrafficLog of store/traffic.go.                                         *)
(***************************************************************************)
EXTENDS Naturals, Sequences, SequencesExt

CONSTANTS
  Requests,        (* requests that end, each with one row                 *)
  TrafficLogMax,   (* Settings.TrafficLogMax; 0 means DefaultMax           *)
  DefaultMax,      (* 500                                                  *)
  Limit,           (* rows the dashboard asks for: 50                      *)
  MaxTime          (* bound: the last instant of the clock                 *)

ASSUME TrafficLogBounds ==
  /\ TrafficLogMax \in Nat /\ DefaultMax \in Nat \ {0} /\ Limit \in Nat
  /\ MaxTime \in Nat
ASSUME EarlierAssumption == "earlier" \notin Requests

VARIABLES
  now,       (* the wall clock                                             *)
  phase,     (* request -> "serving", "stamped", "done"                    *)
  ts,        (* request -> the TS of its entry                             *)
  log,       (* State.TrafficLog                                           *)
  written    (* ghost: every row that was ever stored, in order            *)

logVars == <<now, phase, ts, log, written>>

Entry(r, at) == [request |-> r, ts |-> at]

\* The log may come from a file written when the limit was higher.
LogInit ==
  /\ now = 0
  /\ phase = [r \in Requests |-> "serving"]
  /\ ts = [r \in Requests |-> 0]
  /\ \E n \in 0 .. (DefaultMax + 1) : log = [i \in 1 .. n |-> Entry("earlier", 0)]
  /\ written = log

Tick == now < MaxTime /\ now' = now + 1 /\ UNCHANGED <<phase, ts, log, written>>

\* RecordTraffic stamps the entry before it asks for the lock.
Stamp(r) ==
  /\ phase[r] = "serving"
  /\ ts' = [ts EXCEPT ![r] = now]
  /\ phase' = [phase EXCEPT ![r] = "stamped"]
  /\ UNCHANGED <<now, log, written>>

LastRows(s, n) == IF Len(s) <= n THEN s ELSE SubSeq(s, Len(s) - n + 1, Len(s))

KeptRows == IF TrafficLogMax = 0 THEN DefaultMax ELSE TrafficLogMax

\* Mutant: one row too many is kept.
Trimmed_OneMore(s) == LastRows(s, KeptRows + 1)

Trimmed(s) == LastRows(s, KeptRows)

AppendTrafficLog(r) ==
  /\ phase[r] = "stamped"
  /\ log' = Trimmed(Append(log, Entry(r, ts[r])))
  /\ written' = Append(written, Entry(r, ts[r]))
  /\ phase' = [phase EXCEPT ![r] = "done"]
  /\ UNCHANGED <<now, ts>>

\* The update could not be stored: the row is lost, and said to be on the
\* dashboard all the same.
AppendFails(r) ==
  /\ phase[r] = "stamped"
  /\ phase' = [phase EXCEPT ![r] = "done"]
  /\ UNCHANGED <<now, ts, log, written>>

LogNext ==
  Tick \/ \E r \in Requests : Stamp(r) \/ AppendTrafficLog(r) \/ AppendFails(r)

LogSpec == LogInit /\ [][LogNext]_logVars

\* What the dashboard lists, newest first.
Listed == Reverse(IF Limit > 0 THEN LastRows(log, Limit) ELSE log)
-----------------------------------------------------------------------------
\* The log is the end of everything ever stored, as long as the limit allows
\* once the first row is in, whatever rows a failed write lost between them,
\* and the dashboard lists its last rows from the end (traffic.go:10-39).
LogIsTheEnd ==
  LET kept == IF \E r \in Requests : Len(written) > 0 /\ Last(written).request = r
              THEN KeptRows ELSE Len(written)
  IN  /\ log = LastRows(written, kept)
      /\ \A i \in DOMAIN Listed : Listed[i] = written[Len(written) + 1 - i]
      /\ Len(Listed) = IF Limit > 0 /\ Limit < Len(log) THEN Limit ELSE Len(log)
=============================================================================
