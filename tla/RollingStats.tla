---------------------------- MODULE RollingStats ----------------------------
(***************************************************************************)
(* internal/pool/health.go: the rolling request/error counters of one      *)
(* account, as a value and the operations on it.                           *)
(*                                                                         *)
(* Instants are naturals.  The start of a bucket is held as the bucket's   *)
(* number (instant \div BucketDuration), so that the code's                *)
(* cur.Sub(head)/rollingBucketDuration is a plain difference.              *)
(***************************************************************************)
EXTENDS Integers, Functions

CONSTANTS
  BucketCount,     (* rollingBucketCount: 6 in the code                    *)
  BucketDuration   (* rollingBucketDuration: 50s in the code               *)

ASSUME BucketCountAssumption    == BucketCount \in Nat \ {0}
ASSUME BucketDurationAssumption == BucketDuration \in Nat \ {0}

Slots == 0 .. (BucketCount - 1)

\* The zero time.Time of a tracker that was never rolled.
NoHead == -1

Bucket == [reqs : Nat, errs : Nat]

EmptyBucket == [reqs |-> 0, errs |-> 0]

Tracker == [head : Nat \cup {NoHead}, buckets : [Slots -> Bucket]]

NewRollingStats ==
  [head |-> NoHead, buckets |-> [i \in Slots |-> EmptyBucket]]

\* now.Truncate(rollingBucketDuration).  Truncate strips the monotonic
\* reading, so what is compared is wall-clock time, which may step back.
BucketOf(now) == now \div BucketDuration

\* Mutant: one bucket too many is cleared.
Shifted_ClearsOneMore(buckets, shifts) ==
  [i \in Slots |-> IF i <= shifts THEN EmptyBucket ELSE buckets[i - shifts]]

\* The two loops of the code; when shifts >= BucketCount every slot is below
\* shifts and the result is the all-empty array of the code's early return.
Shifted(buckets, shifts) ==
  [i \in Slots |-> IF i < shifts THEN EmptyBucket ELSE buckets[i - shifts]]

\* Mutant: a clock set back takes the head back with it.
rollLocked_HeadGoesBack(rs, now) ==
  LET cur == BucketOf(now) IN
  IF rs.head = NoHead \/ cur <= rs.head THEN [rs EXCEPT !.head = cur]
  ELSE [head |-> cur, buckets |-> Shifted(rs.buckets, cur - rs.head)]

\* Mutant: a clock set back starts the statistics afresh.
rollLocked_StartsAfresh(rs, now) ==
  LET cur == BucketOf(now) IN
  IF rs.head = NoHead \/ cur < rs.head THEN [NewRollingStats EXCEPT !.head = cur]
  ELSE IF cur = rs.head THEN rs
  ELSE [head |-> cur, buckets |-> Shifted(rs.buckets, cur - rs.head)]

rollLocked(rs, now) ==
  LET cur == BucketOf(now) IN
  IF rs.head = NoHead    THEN [rs EXCEPT !.head = cur]
  ELSE IF cur <= rs.head THEN rs
  ELSE [head |-> cur, buckets |-> Shifted(rs.buckets, cur - rs.head)]

Count(b, success) ==
  [reqs |-> b.reqs + 1, errs |-> IF success THEN b.errs ELSE b.errs + 1]

Record(rs, now, success) ==
  LET rolled == rollLocked(rs, now)
  IN  [rolled EXCEPT !.buckets[0] = Count(@, success)]

\* What Snapshot returns once the tracker has been rolled.
Totals(rs) ==
  [reqs |-> FoldFunction(+, 0, [i \in Slots |-> rs.buckets[i].reqs]),
   errs |-> FoldFunction(+, 0, [i \in Slots |-> rs.buckets[i].errs])]

\* ErrorRate() > max, for a rational max; a history without requests has
\* rate 0 and is above no threshold.
RateAbove(totals, max) ==
  totals.reqs # 0 /\ totals.errs * max.den > max.num * totals.reqs
=============================================================================
