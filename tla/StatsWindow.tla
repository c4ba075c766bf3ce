---------------------------- MODULE StatsWindow -----------------------------
(***************************************************************************)
(* One account's RollingStats driven by a clock: Record and Snapshot run   *)
(* under the tracker's mutex, so each is one step.  The clock is the wall  *)
(* clock (health.go:40-44 takes time.Now) and may be stepped back.         *)
(*                                                                         *)
(* Two ghosts: log counts the outcomes by the instant Record was called,   *)
(* ledger by the bucket they were filed under.                             *)
(***************************************************************************)
EXTENDS RollingStats

CONSTANTS
  Times,           (* the instants the clock shows                         *)
  MaxRecords       (* bound: outcomes recorded in a behaviour              *)

ASSUME TimesAssumption == Times \subseteq Nat /\ 0 \in Times
ASSUME MaxRecordsAssumption == MaxRecords \in Nat

VARIABLES
  rs,       (* the tracker                                                 *)
  now,      (* the wall clock                                              *)
  latest,   (* ghost: the highest instant the clock has shown              *)
  setBack,  (* ghost: the clock was set back at some time                  *)
  log,      (* ghost: instant -> outcomes recorded at it                   *)
  ledger,   (* ghost: bucket number -> outcomes filed under it             *)
  records,  (* ghost: outcomes recorded so far                             *)
  read      (* ghost: the last step was a Snapshot, which returned         *)
            (* Totals(rs)                                                  *)

vars == <<rs, now, latest, setBack, log, ledger, records, read>>

Buckets == {BucketOf(t) : t \in Times}

Init ==
  /\ rs = NewRollingStats
  /\ now = 0
  /\ latest = 0
  /\ setBack = FALSE
  /\ log = [t \in Times |-> EmptyBucket]
  /\ ledger = [b \in Buckets |-> EmptyBucket]
  /\ records = 0
  /\ read = FALSE

ClockMoves(t) ==
  /\ t # now
  /\ now' = t
  /\ setBack' = (setBack \/ t < now)
  /\ latest' = IF t > latest THEN t ELSE latest
  /\ read' = FALSE
  /\ UNCHANGED <<rs, log, ledger, records>>

RecordOutcome(success) ==
  /\ records < MaxRecords
  /\ rs' = Record(rs, now, success)
  /\ log' = [log EXCEPT ![now] = Count(@, success)]
  /\ ledger' = [ledger EXCEPT ![rs'.head] = Count(@, success)]
  /\ records' = records + 1
  /\ read' = FALSE
  /\ UNCHANGED <<now, latest, setBack>>

Snapshot ==
  /\ rs' = rollLocked(rs, now)
  /\ read' = TRUE
  /\ UNCHANGED <<now, latest, setBack, log, ledger, records>>

Next ==
  \/ \E t \in Times : ClockMoves(t)
  \/ \E success \in BOOLEAN : RecordOutcome(success)
  \/ Snapshot

Spec == Init /\ [][Next]_vars
-----------------------------------------------------------------------------
TypeOK ==
  /\ rs \in Tracker
  /\ now \in Times
  /\ latest \in Times
  /\ setBack \in BOOLEAN
  /\ log \in [Times -> Bucket]
  /\ ledger \in [Buckets -> Bucket]
  /\ records \in Nat
  /\ read \in BOOLEAN

\* The buckets hold exactly what the ledger says of the last BucketCount
\* buckets up to head, whatever jumps the clock made (health.go:85-109).
\* Nothing is filed ahead of head.
WindowMatchesLedger ==
  /\ rs.head \in Buckets \cup {NoHead}
  /\ \A b \in Buckets : b > rs.head => ledger[b] = EmptyBucket
  /\ \A i \in Slots :
       rs.buckets[i] = IF rs.head - i \in Buckets THEN ledger[rs.head - i]
                                                  ELSE EmptyBucket

Recorded(instants) ==
  [reqs |-> SumFunctionOnSet([t \in Times |-> log[t].reqs], instants),
   errs |-> SumFunctionOnSet([t \in Times |-> log[t].errs], instants)]

AtMost(a, b) == a.reqs <= b.reqs /\ a.errs <= b.errs

\* While the clock was never set back, a Snapshot counts every outcome of the last
\* BucketCount - 1 bucket durations and none that is BucketCount durations
\* old ("a 5-minute window", health.go:13-20).  The eviction of an account
\* therefore ends once it has had no failure for the length of the window.
SnapshotIsTheWindow ==
  (read /\ ~setBack) =>
    LET younger(age) == {t \in Times : t <= now /\ now - t < age} IN
    /\ AtMost(Recorded(younger((BucketCount - 1) * BucketDuration + 1)), Totals(rs))
    /\ AtMost(Totals(rs), Recorded(younger(BucketCount * BucketDuration)))

\* Whatever the clock does, an outcome is not forgotten before the clock has
\* been seen BucketCount buckets later than the instant of the outcome: a
\* clock set back may lengthen an eviction but never hides a recent failure
\* (the early return of health.go:91-93).
NotForgottenEarly ==
  read =>
    AtMost(Recorded({t \in Times : t <= latest /\ BucketOf(t) > BucketOf(latest) - BucketCount}),
           Totals(rs))

\* The tracker implements the never-forgetting ledger's view.
Ledger == INSTANCE OutcomeWindow WITH
  Width <- BucketCount, frontier <- rs.head, window <- rs.buckets

ImplementsWindow == Ledger!Spec
=============================================================================
