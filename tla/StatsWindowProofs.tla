-------------------------- MODULE StatsWindowProofs -------------------------
(***************************************************************************)
(* For every number and length of buckets, every clock and every sequence  *)
(* of outcomes: the tracker's array is the ledger's view of the last       *)
(* BucketCount buckets, hence StatsWindow implements OutcomeWindow; and    *)
(* what a Snapshot adds up from it is what was recorded in the window.     *)
(***************************************************************************)
EXTENDS StatsWindow, FoldLemmas, TLAPS

\* The inductive invariant: the window can only be shown to follow the ledger
\* together with the types of both.
IInv == TypeOK /\ WindowMatchesLedger

\* Truncation of an instant gives a bucket number (health.go:86).
LEMMA BucketOfInstant ==
  ASSUME NEW t \in Times
  PROVE  BucketOf(t) \in Nat /\ BucketOf(t) \in Buckets
  BY TimesAssumption, BucketDurationAssumption DEF BucketOf, Buckets

\* Every bucket number is a natural.
LEMMA BucketsAreNaturals == Buckets \subseteq Nat
  BY BucketOfInstant DEF Buckets

\* Rolling keeps the tracker's type, moves head to the newer of head and the
\* clock's bucket, and leaves an array that is again the ledger's view, for a
\* ledger with nothing ahead of head (health.go:85-109).
LEMMA RollFollowsLedger ==
  ASSUME IInv
  PROVE  LET cur == BucketOf(now)
             rolled == rollLocked(rs, now) IN
         /\ rolled \in Tracker
         /\ rolled.head = IF cur > rs.head THEN cur ELSE rs.head
         /\ rolled.head \in Buckets
         /\ \A b \in Buckets : b > rolled.head => ledger[b] = EmptyBucket
         /\ rolled.buckets =
              [i \in Slots |-> IF rolled.head - i \in Buckets
                               THEN ledger[rolled.head - i] ELSE EmptyBucket]
<1> DEFINE cur == BucketOf(now)
           rolled == rollLocked(rs, now)
           At(h, i) == IF h - i \in Buckets THEN ledger[h - i] ELSE EmptyBucket
<1>1. cur \in Nat /\ cur \in Buckets
  BY BucketOfInstant DEF IInv, TypeOK
<1>2. /\ rs = [head |-> rs.head, buckets |-> rs.buckets]
      /\ rs.head \in Nat \cup {NoHead}
      /\ rs.buckets \in [Slots -> Bucket]
  BY DEF IInv, TypeOK, Tracker
<1>3. /\ rs.head \in Buckets \cup {NoHead}
      /\ \A b \in Buckets : b > rs.head => ledger[b] = EmptyBucket
      /\ \A i \in Slots : rs.buckets[i] = At(rs.head, i)
  BY DEF IInv, WindowMatchesLedger
<1>4. EmptyBucket \in Bucket /\ Slots \subseteq Nat
  BY BucketCountAssumption DEF EmptyBucket, Bucket, Slots
<1>5. CASE rs.head = NoHead
  <2>1. rolled = [head |-> cur, buckets |-> rs.buckets]
    BY <1>2, <1>5 DEF rollLocked
  <2>2. \A b \in Buckets : ledger[b] = EmptyBucket
    BY <1>3, <1>5, BucketsAreNaturals DEF NoHead
  <2>3. \A i \in Slots : rs.buckets[i] = At(cur, i)
    BY <1>3, <2>2
  <2>4. rs.buckets = [i \in Slots |-> At(cur, i)]
    BY <1>2, <2>3
  <2>5. cur > rs.head
    BY <1>1, <1>5 DEF NoHead
  <2> QED
    BY <1>1, <1>2, <2>1, <2>2, <2>4, <2>5 DEF Tracker
<1>6. CASE rs.head # NoHead /\ cur <= rs.head
  <2>1. rolled = rs
    BY <1>6 DEF rollLocked
  <2>2. rs.buckets = [i \in Slots |-> At(rs.head, i)]
    BY <1>2, <1>3
  <2> QED
    BY <1>1, <1>2, <1>3, <1>6, <2>1, <2>2 DEF Tracker
<1>7. CASE rs.head # NoHead /\ ~ (cur <= rs.head)
  <2> DEFINE shifts == cur - rs.head
  <2>1. rs.head \in Nat /\ shifts \in Nat /\ cur > rs.head
    BY <1>1, <1>2, <1>7
  <2>2. rolled = [head |-> cur, buckets |-> Shifted(rs.buckets, shifts)]
    BY <1>7 DEF rollLocked
  <2>3. \A b \in Buckets : b > cur => ledger[b] = EmptyBucket
    BY <1>1, <1>3, <2>1, BucketsAreNaturals
  <2>4. ASSUME NEW i \in Slots
        PROVE  /\ Shifted(rs.buckets, shifts)[i] = At(cur, i)
               /\ Shifted(rs.buckets, shifts)[i] \in Bucket
    <3>1. CASE i < shifts
      <4>1. cur - i > rs.head
        BY <1>1, <1>4, <2>1, <3>1
      <4>2. At(cur, i) = EmptyBucket
        BY <1>3, <4>1
      <4> QED
        BY <1>4, <3>1, <4>2 DEF Shifted
    <3>2. CASE ~ (i < shifts)
      <4>1. i - shifts \in Slots /\ cur - i = rs.head - (i - shifts)
        BY <1>1, <1>4, <2>1, <3>2, BucketCountAssumption DEF Slots
      <4>2. Shifted(rs.buckets, shifts)[i] = rs.buckets[i - shifts]
        BY <3>2 DEF Shifted
      <4>3. rs.buckets[i - shifts] = At(rs.head, i - shifts)
        BY <1>3, <4>1
      <4> QED
        BY <1>2, <4>1, <4>2, <4>3
    <3> QED
      BY <3>1, <3>2
  <2>5. Shifted(rs.buckets, shifts) = [i \in Slots |-> At(cur, i)]
    BY <2>4 DEF Shifted
  <2>6. Shifted(rs.buckets, shifts) \in [Slots -> Bucket]
    BY <2>4 DEF Shifted
  <2> QED
    BY <1>1, <2>1, <2>2, <2>3, <2>5, <2>6 DEF Tracker
<1> QED
  BY <1>5, <1>6, <1>7

\* Counting an outcome keeps a bucket a pair of naturals and changes it.
LEMMA CountTyped ==
  ASSUME NEW b \in Bucket, NEW success \in BOOLEAN
  PROVE  /\ Count(b, success) \in Bucket
         /\ Count(b, success) = [reqs |-> b.reqs + 1,
                                 errs |-> b.errs + IF success THEN 0 ELSE 1]
  BY DEF Bucket, Count

\* A fresh RollingStats (health.go:26-31) stands for an empty ledger.
LEMMA InitEstablishesIInv == Init => IInv
<1> SUFFICES ASSUME Init PROVE IInv
  OBVIOUS
<1>1. rs = [head |-> NoHead, buckets |-> [i \in Slots |-> EmptyBucket]]
  BY DEF Init, NewRollingStats
<1>2. EmptyBucket \in Bucket
  BY DEF EmptyBucket, Bucket
<1>3. TypeOK
  <2>1. rs \in Tracker
    BY <1>1, <1>2 DEF Tracker
  <2>2. /\ log \in [Times -> Bucket] /\ ledger \in [Buckets -> Bucket]
        /\ now \in Times /\ latest \in Times /\ records \in Nat
    BY <1>2, TimesAssumption DEF Init
  <2>3. read \in BOOLEAN /\ setBack \in BOOLEAN
    BY DEF Init
  <2> QED
    BY <2>1, <2>2, <2>3 DEF TypeOK
<1>4. WindowMatchesLedger
  BY <1>1 DEF Init, WindowMatchesLedger
<1> QED
  BY <1>3, <1>4 DEF IInv

\* A Record changes slot 0 of the rolled array and the ledger entry of its
\* head alike (health.go:49-57).
LEMMA RecordFollowsLedger ==
  ASSUME IInv, NEW success \in BOOLEAN, RecordOutcome(success)
  PROVE  /\ IInv'
         /\ rs'.head = rollLocked(rs, now).head
         /\ rs'.head \in Buckets
<1> DEFINE rolled == rollLocked(rs, now)
<1>1. /\ rolled \in Tracker
      /\ rolled.head \in Buckets
      /\ \A b \in Buckets : b > rolled.head => ledger[b] = EmptyBucket
      /\ rolled.buckets =
           [i \in Slots |-> IF rolled.head - i \in Buckets
                            THEN ledger[rolled.head - i] ELSE EmptyBucket]
  BY RollFollowsLedger
<1>2. rs' = [rolled EXCEPT !.buckets[0] = Count(@, success)]
  BY DEF RecordOutcome, Record
<1>3. 0 \in Slots /\ Slots \subseteq Nat
  BY BucketCountAssumption DEF Slots
<1>4. /\ rolled.head \in Nat
      /\ rolled.buckets \in [Slots -> Bucket]
      /\ rolled = [head |-> rolled.head, buckets |-> rolled.buckets]
  BY <1>1, BucketsAreNaturals DEF Tracker
<1>5. /\ rs'.head = rolled.head
      /\ rs'.buckets = [rolled.buckets EXCEPT ![0] = Count(@, success)]
      /\ rs' = [head |-> rs'.head, buckets |-> rs'.buckets]
  BY <1>2, <1>4
<1>6. /\ ledger \in [Buckets -> Bucket]
      /\ ledger' = [ledger EXCEPT ![rolled.head] = Count(@, success)]
      /\ log \in [Times -> Bucket] /\ now \in Times /\ latest \in Times
      /\ log' = [log EXCEPT ![now] = Count(@, success)]
      /\ records \in Nat /\ records' = records + 1
      /\ read' = FALSE /\ now' = now /\ latest' = latest /\ setBack' = setBack
  BY <1>5 DEF RecordOutcome, IInv, TypeOK
<1>7. TypeOK'
  <2>1. rs' \in Tracker
    BY <1>3, <1>4, <1>5, CountTyped DEF Tracker
  <2>2. ledger' \in [Buckets -> Bucket]
    BY <1>1, <1>6, CountTyped
  <2>3. log' \in [Times -> Bucket]
    BY <1>6, CountTyped
  <2>4. records' \in Nat /\ now' \in Times /\ latest' \in Times
    BY <1>6
  <2>5. read' \in BOOLEAN /\ setBack' \in BOOLEAN
    BY <1>6 DEF IInv, TypeOK
  <2> QED
    BY <2>1, <2>2, <2>3, <2>4, <2>5 DEF TypeOK
<1>8. WindowMatchesLedger'
  <2>1. rs'.head \in Buckets
    BY <1>1, <1>5
  <2>2. \A b \in Buckets : b > rs'.head => ledger'[b] = EmptyBucket
    BY <1>1, <1>4, <1>5, <1>6, BucketsAreNaturals
  <2>3. ASSUME NEW i \in Slots
        PROVE  rs'.buckets[i] = IF rs'.head - i \in Buckets
                                THEN ledger'[rs'.head - i] ELSE EmptyBucket
    <3>1. CASE i = 0
      <4>1. rolled.head - i = rolled.head /\ rolled.buckets[0] = ledger[rolled.head]
        BY <1>1, <1>3, <1>4, <3>1
      <4> QED
        BY <1>1, <1>3, <1>4, <1>5, <1>6, <3>1, <4>1
    <3>2. CASE i # 0
      <4>1. rolled.head - i # rolled.head
        BY <1>3, <1>4, <3>2
      <4>2. rs'.buckets[i] = rolled.buckets[i]
        BY <1>4, <1>5, <3>2
      <4>3. rolled.head - i \in Buckets =>
              ledger'[rolled.head - i] = ledger[rolled.head - i]
        BY <1>6, <4>1
      <4> QED
        BY <1>1, <1>5, <4>2, <4>3
    <3> QED
      BY <3>1, <3>2
  <2> QED
    BY <2>1, <2>2, <2>3, <1>6 DEF WindowMatchesLedger, Buckets, BucketOf
<1> QED
  BY <1>1, <1>5, <1>7, <1>8 DEF IInv

\* A Snapshot leaves the rolled array (health.go:60-63).
LEMMA SnapshotFollowsLedger ==
  ASSUME IInv, Snapshot
  PROVE  IInv' /\ rs'.head \in Buckets
<1>1. rs' = rollLocked(rs, now)
  BY DEF Snapshot
<1>2. TypeOK'
  BY <1>1, RollFollowsLedger DEF Snapshot, IInv, TypeOK
<1>3. WindowMatchesLedger'
  BY <1>1, RollFollowsLedger DEF Snapshot, WindowMatchesLedger
<1> QED
  BY <1>1, <1>2, <1>3, RollFollowsLedger DEF IInv

\* The clock alone moves no counter: only Record and Snapshot look at it
\* (health.go:33-38).
LEMMA ClockKeepsIInv ==
  ASSUME IInv, NEW t \in Times, ClockMoves(t)
  PROVE  IInv'
<1>1. TypeOK'
  BY DEF IInv, TypeOK, ClockMoves
<1>2. WindowMatchesLedger'
  BY DEF IInv, WindowMatchesLedger, ClockMoves
<1> QED
  BY <1>1, <1>2 DEF IInv

\* Record, Snapshot and any movement of the clock keep the inductive invariant.
LEMMA NextKeepsIInv == IInv /\ [Next]_vars => IInv'
<1> SUFFICES ASSUME IInv, [Next]_vars PROVE IInv'
  OBVIOUS
<1>1. ASSUME NEW t \in Times, ClockMoves(t) PROVE IInv'
  BY <1>1, ClockKeepsIInv
<1>2. ASSUME NEW success \in BOOLEAN, RecordOutcome(success) PROVE IInv'
  BY <1>2, RecordFollowsLedger
<1>3. CASE Snapshot
  BY <1>3, SnapshotFollowsLedger
<1>4. CASE UNCHANGED vars
  BY <1>4 DEF vars, IInv, TypeOK, WindowMatchesLedger
<1> QED
  BY <1>1, <1>2, <1>3, <1>4 DEF Next

\* For all constants: the counters are always well typed, and the array holds
\* exactly the last BucketCount buckets of what was recorded, even when the
\* clock is set back or jumps ahead by any amount (health.go:85-109).
THEOREM WindowCorrect == Spec => [](TypeOK /\ WindowMatchesLedger)
<1>1. Init => IInv
  BY InitEstablishesIInv
<1>2. IInv /\ [Next]_vars => IInv'
  BY NextKeepsIInv
<1>3. IInv => TypeOK /\ WindowMatchesLedger
  BY DEF IInv
<1> QED
  BY <1>1, <1>2, <1>3, PTL DEF Spec

\* For all constants: whatever the clock does, the shifting array of the code
\* cannot be told from a view of a ledger that forgets nothing
\* (health.go:22-25, 82-109).
THEOREM ImplementsOutcomeWindow == Spec => ImplementsWindow
<1>1. Init => Ledger!Init
  <2> SUFFICES ASSUME Init PROVE Ledger!Init
    OBVIOUS
  <2>1. rs.head = -1 /\ rs.buckets = [i \in Slots |-> EmptyBucket]
    BY DEF Init, NewRollingStats, NoHead
  <2>2. \A i \in Slots : -1 - i \notin Buckets
    BY BucketsAreNaturals, BucketCountAssumption DEF Slots
  <2>3. rs.buckets = Ledger!View(ledger, rs.head)
    BY <2>1, <2>2 DEF Ledger!View, Ledger!Nothing, Slots, EmptyBucket
  <2> QED
    BY <2>1, <2>3 DEF Init, Ledger!Init, Ledger!Nothing, EmptyBucket
<1>2. IInv /\ IInv' /\ [Next]_vars => [Ledger!Next]_(Ledger!vars)
  <2> SUFFICES ASSUME IInv, IInv', [Next]_vars
               PROVE  [Ledger!Next]_(Ledger!vars)
    OBVIOUS
  <2>1. BucketOf(now) \in Buckets
    BY BucketOfInstant DEF IInv, TypeOK
  <2>2. ASSUME rs'.head \in Buckets
        PROVE  rs'.buckets = Ledger!View(ledger', rs'.head)
    <3>1. rs'.buckets \in [Slots -> Bucket]
      BY DEF IInv, TypeOK, Tracker
    <3>2. \A i \in Slots : rs'.buckets[i] =
            IF rs'.head - i \in Buckets THEN ledger'[rs'.head - i]
                                        ELSE EmptyBucket
      BY DEF IInv, WindowMatchesLedger
    <3> QED
      BY <3>1, <3>2 DEF Ledger!View, Ledger!Nothing, Slots, EmptyBucket
  <2>3. ASSUME NEW t \in Times, ClockMoves(t)
        PROVE  UNCHANGED Ledger!vars
    BY <2>3 DEF ClockMoves, Ledger!vars
  <2>4. ASSUME NEW success \in BOOLEAN, RecordOutcome(success)
        PROVE  Ledger!Next
    <3> DEFINE failed == IF success THEN 0 ELSE 1
               h == rs'.head
    <3>1. h \in Buckets /\ h = rollLocked(rs, now).head
      BY <2>4, RecordFollowsLedger
    <3>2. Ledger!Advance(BucketOf(now))
      BY <3>1, RollFollowsLedger DEF Ledger!Advance
    <3>3. /\ ledger \in [Buckets -> Bucket]
          /\ ledger' = [ledger EXCEPT ![h] = Count(@, success)]
      BY <2>4 DEF RecordOutcome, IInv, TypeOK
    <3>4. ledger[h] \in Bucket
      BY <3>1, <3>3
    <3>5. Count(ledger[h], success) = [reqs |-> ledger[h].reqs + 1,
                                       errs |-> ledger[h].errs + failed]
      BY <3>4, CountTyped
    <3>6. ledger' = [ledger EXCEPT ![h].reqs = @ + 1, ![h].errs = @ + failed]
      BY <3>1, <3>3, <3>4, <3>5 DEF Bucket
    <3>7. Ledger!File(BucketOf(now), failed)
      BY <2>2, <3>1, <3>2, <3>6 DEF Ledger!File
    <3> QED
      BY <2>1, <3>7 DEF Ledger!Next
  <2>5. CASE Snapshot
    <3>1. rs'.head \in Buckets
      BY <2>5, SnapshotFollowsLedger
    <3>2. Ledger!Advance(BucketOf(now))
      BY <2>5, RollFollowsLedger DEF Snapshot, Ledger!Advance
    <3>3. Ledger!Look(BucketOf(now))
      BY <2>2, <2>5, <3>1, <3>2 DEF Snapshot, Ledger!Look
    <3> QED
      BY <2>1, <3>3 DEF Ledger!Next
  <2>6. CASE UNCHANGED vars
    BY <2>6 DEF vars, Ledger!vars
  <2> QED
    BY <2>3, <2>4, <2>5, <2>6 DEF Next
<1>3. Spec => []IInv
  BY InitEstablishesIInv, NextKeepsIInv, PTL DEF Spec
<1> QED
  BY <1>1, <1>2, <1>3, PTL DEF Spec, ImplementsWindow, Ledger!Spec
-----------------------------------------------------------------------------
(* What a Snapshot counts: the totals of the window against the outcomes by *)
(* the instant they happened.                                               *)

\* One of the two counters of every instant, and of every bucket number.
LogPart(errs) == [t \in Times |-> IF errs THEN log[t].errs ELSE log[t].reqs]
FiledPart(errs) == [b \in Buckets |-> IF errs THEN ledger[b].errs ELSE ledger[b].reqs]

\* The instants up to l from bucket B on, and their buckets.
Since(l, B) == {t \in Times : t <= l /\ BucketOf(t) >= B}
FiledSince(l, B) == {b \in Buckets : b <= BucketOf(l) /\ b >= B}

Logged(errs, B) == SumFunctionOnSet(LogPart(errs), Since(latest, B))
Filed(errs, B) == SumFunctionOnSet(FiledPart(errs), FiledSince(latest, B))

ClockFollowed ==
  /\ now <= latest
  /\ rs.head <= BucketOf(latest)
  /\ ~setBack => now = latest
  /\ read => rs.head >= BucketOf(now)
  /\ \A t \in Times : t > latest => log[t] = EmptyBucket

\* No outcome is filed under an older bucket than its own, and only a clock
\* set back has one filed under a newer bucket.
CountsAgree ==
  \A errs \in BOOLEAN, B \in Int :
    /\ Logged(errs, B) <= Filed(errs, B)
    /\ ~setBack => Logged(errs, B) = Filed(errs, B)

SInv == IInv /\ ClockFollowed /\ CountsAgree

\* Truncation rounds down (health.go:86).
LEMMA BucketBounds ==
  \A t \in Nat : /\ BucketOf(t) \in Nat
                 /\ BucketDuration * BucketOf(t) <= t
                 /\ t < BucketDuration * BucketOf(t) + BucketDuration
BY BucketDurationAssumption, DivisionBounds DEF BucketOf

\* A later instant is in no earlier bucket.
LEMMA BucketsFollowTime ==
  \A s, t \in Nat : s <= t => BucketOf(s) <= BucketOf(t)
BY BucketDurationAssumption, DivisionMonotone DEF BucketOf

\* The counters of an instant and of a bucket number are naturals.
LEMMA PartsTyped ==
  ASSUME TypeOK, NEW errs \in BOOLEAN
  PROVE  /\ \A t \in Times : LogPart(errs)[t] \in Nat
         /\ \A b \in Buckets : FiledPart(errs)[b] \in Nat
BY DEF TypeOK, LogPart, FiledPart, Bucket

\* However many instants the clock has, it has reached finitely many.
LEMMA SinceFinite ==
  ASSUME NEW l \in Nat, NEW B
  PROVE  IsFiniteSet(Since(l, B)) /\ IsFiniteSet(FiledSince(l, B))
<1>1. BucketOf(l) \in Nat
  BY BucketBounds
<1>2. IsFiniteSet(0 .. l) /\ IsFiniteSet(0 .. BucketOf(l))
  BY <1>1, FS_Interval
<1>3. \A t \in Since(l, B) : t \in 0 .. l
  <2> SUFFICES ASSUME NEW t \in Times, t <= l PROVE t \in 0 .. l
    BY DEF Since
  <2> QED
    BY TimesAssumption
<1>4. \A b \in FiledSince(l, B) : b \in 0 .. BucketOf(l)
  <2> SUFFICES ASSUME NEW b \in Buckets, b <= BucketOf(l)
               PROVE  b \in 0 .. BucketOf(l)
    BY DEF FiledSince
  <2> QED
    BY <1>1, BucketsAreNaturals
<1> QED
  BY <1>2, <1>3, <1>4, FS_Subset

\* head is a bucket number or stands for the zero time (health.go:88-90).
LEMMA HeadIsInt ==
  ASSUME IInv PROVE rs.head \in Int /\ (rs.head \in Nat \/ rs.head = -1)
<1>1. rs \in Tracker
  BY DEF IInv, TypeOK
<1> QED
  BY <1>1 DEF Tracker, NoHead

\* A new tracker has nothing to count.
LEMMA InitCountsAgree == Init => SInv
<1> SUFFICES ASSUME Init PROVE SInv
  OBVIOUS
<1>1. IInv
  BY InitEstablishesIInv
<1>2. ClockFollowed
  <2>1. BucketOf(0) \in Nat
    BY BucketBounds
  <2>2. rs.head = NoHead
    BY DEF Init, NewRollingStats
  <2> QED
    BY <2>1, <2>2 DEF Init, ClockFollowed, NoHead
<1>3. ASSUME NEW errs \in BOOLEAN, NEW B \in Int
      PROVE  Logged(errs, B) = 0 /\ Filed(errs, B) = 0
  <2>1. IsFiniteSet(Since(latest, B)) /\ IsFiniteSet(FiledSince(latest, B))
    <3>1. latest \in Nat
      BY TimesAssumption DEF Init
    <3> QED
      BY <3>1, SinceFinite
  <2>2. \A t \in Since(latest, B) : LogPart(errs)[t] = 0
    BY DEF Init, LogPart, Since, EmptyBucket
  <2>3. \A b \in FiledSince(latest, B) : FiledPart(errs)[b] = 0
    BY DEF Init, FiledPart, FiledSince, EmptyBucket
  <2> QED
    BY <2>1, <2>2, <2>3, SumOfZeros DEF Logged, Filed
<1>4. CountsAgree
  BY <1>3 DEF CountsAgree
<1> QED
  BY <1>1, <1>2, <1>4 DEF SInv

\* A step that counts nothing leaves the sums alone, though the clock has
\* reached instants at which nothing can have happened yet.
LEMMA ClockKeepsCounts ==
  ASSUME SInv, IInv', log' = log, ledger' = ledger,
         latest' \in Times, latest' >= latest,
         NEW errs \in BOOLEAN, NEW B \in Int
  PROVE  Logged(errs, B)' = Logged(errs, B) /\ Filed(errs, B)' = Filed(errs, B)
<1> DEFINE f == LogPart(errs)
           g == FiledPart(errs)
<1>1. f' = f /\ g' = g
  BY DEF LogPart, FiledPart
<1>2. IsFiniteSet(Since(latest', B)) /\ IsFiniteSet(FiledSince(latest', B))
  <2>1. latest' \in Nat
    BY TimesAssumption
  <2> QED
    BY <2>1, SinceFinite
<1>3. /\ \A t \in Times : f[t] \in Nat
      /\ \A b \in Buckets : g[b] \in Nat
  BY PartsTyped DEF SInv, IInv
<1>4. latest \in Nat /\ latest' \in Nat
  BY TimesAssumption DEF SInv, IInv, TypeOK
<1>5. /\ BucketOf(latest) \in Nat /\ BucketOf(latest') \in Nat
      /\ BucketOf(latest) <= BucketOf(latest')
  BY <1>4, BucketBounds, BucketsFollowTime
<1>6. Since(latest, B) \in SUBSET Since(latest', B)
  <2> SUFFICES ASSUME NEW t \in Times, t <= latest PROVE t <= latest'
    BY DEF Since
  <2> QED
    BY <1>4, TimesAssumption
<1>7. \A t \in Since(latest', B) \ Since(latest, B) : f[t] = 0
  <2> SUFFICES ASSUME NEW t \in Times, ~(t <= latest) PROVE f[t] = 0
    BY DEF Since
  <2>1. t > latest
    BY <1>4, TimesAssumption
  <2>2. log[t] = EmptyBucket
    BY <2>1 DEF SInv, ClockFollowed
  <2> QED
    BY <2>2 DEF LogPart, EmptyBucket
<1>8. FiledSince(latest, B) \in SUBSET FiledSince(latest', B)
  <2> SUFFICES ASSUME NEW b \in Buckets, b <= BucketOf(latest)
               PROVE  b <= BucketOf(latest')
    BY DEF FiledSince
  <2> QED
    BY <1>5, BucketsAreNaturals
<1>9. \A b \in FiledSince(latest', B) \ FiledSince(latest, B) : g[b] = 0
  <2> SUFFICES ASSUME NEW b \in Buckets, ~(b <= BucketOf(latest)) PROVE g[b] = 0
    BY DEF FiledSince
  <2>1. rs.head \in Int /\ rs.head <= BucketOf(latest)
    BY HeadIsInt DEF SInv, ClockFollowed
  <2>2. b > rs.head
    BY <1>5, <2>1, BucketsAreNaturals
  <2>3. ledger[b] = EmptyBucket
    BY <2>2 DEF SInv, IInv, WindowMatchesLedger
  <2> QED
    BY <2>3 DEF FiledPart, EmptyBucket
<1>10. SumFunctionOnSet(f, Since(latest, B)) = SumFunctionOnSet(f, Since(latest', B))
  <2>1. \A t \in Since(latest', B) : f[t] \in Nat
    BY <1>3 DEF Since
  <2> HIDE DEF f
  <2> QED
    BY <1>2, <1>6, <1>7, <2>1, SumMonotone
<1>11. SumFunctionOnSet(g, FiledSince(latest, B)) = SumFunctionOnSet(g, FiledSince(latest', B))
  <2>1. \A b \in FiledSince(latest', B) : g[b] \in Nat
    BY <1>3 DEF FiledSince
  <2> HIDE DEF g
  <2> QED
    BY <1>2, <1>8, <1>9, <2>1, SumMonotone
<1> QED
  BY <1>1, <1>10, <1>11 DEF Logged, Filed

\* Counting an outcome at instant n, under bucket h, adds the same to the sums
\* that reach n and to the sums that reach h.
LEMMA RecordAddsToBoth ==
  ASSUME TypeOK, NEW success \in BOOLEAN, NEW h \in Buckets,
         log' = [log EXCEPT ![now] = Count(@, success)],
         ledger' = [ledger EXCEPT ![h] = Count(@, success)],
         latest' = latest,
         NEW errs \in BOOLEAN, NEW B \in Int
  PROVE  \E k \in Nat :
           /\ Logged(errs, B)' =
                Logged(errs, B) + IF now \in Since(latest, B) THEN k ELSE 0
           /\ Filed(errs, B)' =
                Filed(errs, B) + IF h \in FiledSince(latest, B) THEN k ELSE 0
<1> DEFINE k == IF errs /\ success THEN 0 ELSE 1
           f == LogPart(errs)
           g == FiledPart(errs)
<1>1. latest \in Nat /\ now \in Times
  BY TimesAssumption DEF TypeOK
<1>2. \A t \in Times : f[t] \in Nat /\ f'[t] = IF t = now THEN f[t] + k ELSE f[t]
  <2> SUFFICES ASSUME NEW t \in Times
               PROVE  f[t] \in Nat /\ f'[t] = IF t = now THEN f[t] + k ELSE f[t]
    OBVIOUS
  <2>1. log[t] \in Bucket /\ log'[t] = IF t = now THEN Count(log[t], success) ELSE log[t]
    BY DEF TypeOK
  <2>2. Count(log[t], success) = [reqs |-> log[t].reqs + 1,
                                  errs |-> log[t].errs + IF success THEN 0 ELSE 1]
    BY <2>1, CountTyped
  <2> QED
    BY <2>1, <2>2 DEF LogPart, Bucket
<1>3. \A b \in Buckets : g[b] \in Nat /\ g'[b] = IF b = h THEN g[b] + k ELSE g[b]
  <2> SUFFICES ASSUME NEW b \in Buckets
               PROVE  g[b] \in Nat /\ g'[b] = IF b = h THEN g[b] + k ELSE g[b]
    OBVIOUS
  <2>1. ledger[b] \in Bucket /\ ledger'[b] = IF b = h THEN Count(ledger[b], success) ELSE ledger[b]
    BY DEF TypeOK
  <2>2. Count(ledger[b], success) = [reqs |-> ledger[b].reqs + 1,
                                     errs |-> ledger[b].errs + IF success THEN 0 ELSE 1]
    BY <2>1, CountTyped
  <2> QED
    BY <2>1, <2>2 DEF FiledPart, Bucket
<1>4. /\ IsFiniteSet(Since(latest, B)) /\ Since(latest, B) \subseteq Times
      /\ IsFiniteSet(FiledSince(latest, B)) /\ FiledSince(latest, B) \subseteq Buckets
  BY <1>1, SinceFinite DEF Since, FiledSince
<1>5. k \in Nat
  OBVIOUS
<1> DEFINE f2 == f'
           g2 == g'
<1> HIDE DEF k
<1>6. /\ \A t \in Times : f2[t] = IF t = now THEN f[t] + k ELSE f[t]
      /\ \A b \in Buckets : g2[b] = IF b = h THEN g[b] + k ELSE g[b]
  BY <1>2, <1>3
<1>7. /\ Logged(errs, B) = SumFunctionOnSet(f, Since(latest, B))
      /\ Logged(errs, B)' = SumFunctionOnSet(f2, Since(latest, B))
      /\ Filed(errs, B) = SumFunctionOnSet(g, FiledSince(latest, B))
      /\ Filed(errs, B)' = SumFunctionOnSet(g2, FiledSince(latest, B))
  BY DEF Logged, Filed
<1> HIDE DEF f, g, f2, g2
<1>8. SumFunctionOnSet(f2, Since(latest, B)) =
        SumFunctionOnSet(f, Since(latest, B)) + IF now \in Since(latest, B) THEN k ELSE 0
  <2>1. PICK n : n = now
    OBVIOUS
  <2>2. PICK S : S = Since(latest, B)
    OBVIOUS
  <2>3. /\ IsFiniteSet(S)
        /\ \A t \in S : f[t] \in Nat
        /\ \A t \in S : f2[t] = IF t = n THEN f[t] + k ELSE f[t]
    BY <1>2, <1>4, <1>6, <2>1, <2>2
  <2>4. SumFunctionOnSet(f2, S) = SumFunctionOnSet(f, S) + IF n \in S THEN k ELSE 0
    BY <1>5, <2>3, SumBump
  <2> QED
    BY <2>1, <2>2, <2>4
<1>9. SumFunctionOnSet(g2, FiledSince(latest, B)) =
        SumFunctionOnSet(g, FiledSince(latest, B)) + IF h \in FiledSince(latest, B) THEN k ELSE 0
  BY <1>3, <1>4, <1>5, <1>6, SumBump
<1> QED
  BY <1>5, <1>7, <1>8, <1>9

\* The sums are naturals.
LEMMA SumsTyped ==
  ASSUME TypeOK, NEW errs \in BOOLEAN, NEW B \in Int
  PROVE  Logged(errs, B) \in Nat /\ Filed(errs, B) \in Nat
<1>1. latest \in Nat
  BY TimesAssumption DEF TypeOK
<1>2. /\ IsFiniteSet(Since(latest, B)) /\ IsFiniteSet(FiledSince(latest, B))
      /\ \A t \in Since(latest, B) : LogPart(errs)[t] \in Nat
      /\ \A b \in FiledSince(latest, B) : FiledPart(errs)[b] \in Nat
  BY <1>1, SinceFinite, PartsTyped DEF Since, FiledSince
<1> QED
  BY <1>2, SumType DEF Logged, Filed

\* A Record files an outcome of now under its own bucket or, after the clock
\* was set back, under a newer one (health.go:49-57, 91-93).
LEMMA RecordKeepsSInv ==
  ASSUME SInv, NEW success \in BOOLEAN, RecordOutcome(success)
  PROVE  SInv'
<1> DEFINE h == rs'.head
           cur == BucketOf(now)
<1>1. IInv /\ IInv' /\ h \in Buckets /\ h = rollLocked(rs, now).head
  BY RecordFollowsLedger DEF SInv
<1>2. h = IF cur > rs.head THEN cur ELSE rs.head
  BY <1>1, RollFollowsLedger
<1>3. /\ now \in Times /\ latest \in Times /\ now \in Nat /\ latest \in Nat
      /\ now <= latest /\ cur \in Nat /\ BucketOf(latest) \in Nat
      /\ cur <= BucketOf(latest)
      /\ rs.head \in Int /\ rs.head <= BucketOf(latest)
      /\ ~setBack => now = latest
  <2>1. now \in Times /\ latest \in Times /\ now \in Nat /\ latest \in Nat /\ now <= latest
    BY <1>1, TimesAssumption DEF SInv, ClockFollowed, IInv, TypeOK
  <2>2. cur \in Nat /\ BucketOf(latest) \in Nat /\ cur <= BucketOf(latest)
    BY <2>1, BucketBounds, BucketsFollowTime
  <2>3. rs.head \in Int
    BY <1>1, HeadIsInt
  <2>4. rs.head <= BucketOf(latest) /\ (~setBack => now = latest)
    BY DEF SInv, ClockFollowed
  <2> QED
    BY <2>1, <2>2, <2>3, <2>4
<1>4. h \in Int /\ h >= cur /\ h <= BucketOf(latest) /\ (~setBack => h = cur)
  <2>1. ~setBack => cur = BucketOf(latest)
    BY <1>3
  <2> HIDE DEF cur
  <2> QED
    BY <1>2, <1>3, <2>1
<1>5. ClockFollowed'
  <2>1. now' = now /\ latest' = latest /\ setBack' = setBack /\ read' = FALSE
    BY DEF RecordOutcome
  <2>2. \A t \in Times : t > latest => log'[t] = EmptyBucket
    <3> SUFFICES ASSUME NEW t \in Times, t > latest PROVE log'[t] = EmptyBucket
      OBVIOUS
    <3>1. t # now
      BY <1>3
    <3>2. log'[t] = log[t]
      BY <1>1, <3>1 DEF RecordOutcome, IInv, TypeOK
    <3> QED
      BY <3>2 DEF SInv, ClockFollowed
  <2> QED
    BY <1>3, <1>4, <2>1, <2>2 DEF ClockFollowed
<1>6. CountsAgree'
  <2> SUFFICES ASSUME NEW errs \in BOOLEAN, NEW B \in Int
               PROVE  /\ Logged(errs, B)' <= Filed(errs, B)'
                      /\ ~setBack' => Logged(errs, B)' = Filed(errs, B)'
    BY DEF CountsAgree
  <2>1. PICK k \in Nat :
          /\ Logged(errs, B)' =
               Logged(errs, B) + IF now \in Since(latest, B) THEN k ELSE 0
          /\ Filed(errs, B)' =
               Filed(errs, B) + IF h \in FiledSince(latest, B) THEN k ELSE 0
    <3>1. /\ log' = [log EXCEPT ![now] = Count(@, success)]
          /\ ledger' = [ledger EXCEPT ![h] = Count(@, success)]
          /\ latest' = latest
      BY DEF RecordOutcome
    <3> HIDE DEF h
    <3> QED
      BY <1>1, <3>1, RecordAddsToBoth DEF IInv
  <2>2. /\ now \in Since(latest, B) <=> cur >= B
        /\ h \in FiledSince(latest, B) <=> h >= B
    BY <1>1, <1>3, <1>4 DEF Since, FiledSince
  <2>3. Logged(errs, B) \in Nat /\ Filed(errs, B) \in Nat
    BY <1>1, SumsTyped DEF IInv
  <2>4. /\ Logged(errs, B) <= Filed(errs, B)
        /\ ~setBack => Logged(errs, B) = Filed(errs, B)
    BY DEF SInv, CountsAgree
  <2>5. setBack' = setBack
    BY DEF RecordOutcome
  <2> HIDE DEF h, cur
  <2>6. cur >= B => h >= B
    BY <1>3, <1>4
  <2>7. ~setBack => (h >= B <=> cur >= B)
    BY <1>4
  <2> QED
    BY <2>1, <2>2, <2>3, <2>4, <2>5, <2>6, <2>7
<1> QED
  BY <1>1, <1>5, <1>6 DEF SInv

\* Another reading of the clock counts nothing (health.go:33-38).
LEMMA ClockKeepsSInv ==
  ASSUME SInv, NEW t \in Times, ClockMoves(t)
  PROVE  SInv'
<1>1. IInv /\ IInv'
  BY ClockKeepsIInv DEF SInv
<1>2. /\ now \in Nat /\ latest \in Nat /\ t \in Nat /\ latest' \in Times /\ latest' \in Nat
      /\ latest' >= latest /\ now <= latest
      /\ now' = t /\ latest' = (IF t > latest THEN t ELSE latest)
      /\ setBack' = (setBack \/ t < now)
      /\ rs' = rs /\ log' = log /\ ledger' = ledger /\ read' = FALSE
  BY <1>1, TimesAssumption DEF SInv, ClockFollowed, IInv, TypeOK, ClockMoves
<1>3. ClockFollowed'
  <2>1. rs.head <= BucketOf(latest')
    <3>1. BucketOf(latest) <= BucketOf(latest') /\ BucketOf(latest) \in Nat /\ BucketOf(latest') \in Nat
      BY <1>2, BucketBounds, BucketsFollowTime
    <3>2. rs.head \in Int /\ rs.head <= BucketOf(latest)
      BY <1>1, HeadIsInt DEF SInv, ClockFollowed
    <3> QED
      BY <3>1, <3>2
  <2>2. ~setBack' => now' = latest'
    <3>1. ~setBack' => ~setBack /\ ~(t < now)
      BY <1>2, Zenon
    <3>2. ~setBack => now = latest
      BY DEF SInv, ClockFollowed
    <3> QED
      BY <1>2, <3>1, <3>2
  <2>3. \A u \in Times : u > latest' => log[u] = EmptyBucket
    <3> SUFFICES ASSUME NEW u \in Times, u > latest' PROVE log[u] = EmptyBucket
      OBVIOUS
    <3>1. u > latest
      BY <1>2, TimesAssumption
    <3> QED
      BY <3>1 DEF SInv, ClockFollowed
  <2>4. now' <= latest'
    BY <1>2
  <2> QED
    BY <1>2, <2>1, <2>2, <2>3, <2>4 DEF ClockFollowed
<1>4. CountsAgree'
  <2> SUFFICES ASSUME NEW errs \in BOOLEAN, NEW B \in Int
               PROVE  /\ Logged(errs, B)' <= Filed(errs, B)'
                      /\ ~setBack' => Logged(errs, B)' = Filed(errs, B)'
    BY DEF CountsAgree
  <2>1. Logged(errs, B)' = Logged(errs, B) /\ Filed(errs, B)' = Filed(errs, B)
    BY <1>1, <1>2, ClockKeepsCounts
  <2>2. ~setBack' => ~setBack
    BY <1>2
  <2> QED
    BY <2>1, <2>2 DEF SInv, CountsAgree
<1> QED
  BY <1>1, <1>3, <1>4 DEF SInv

\* A Snapshot has rolled the tracker to the bucket of now, or found it there
\* or further on (health.go:60-63).
LEMMA SnapshotKeepsSInv ==
  ASSUME SInv, Snapshot
  PROVE  SInv'
<1> DEFINE h == rs'.head
           cur == BucketOf(now)
<1>1. IInv /\ IInv'
  BY SnapshotFollowsLedger DEF SInv
<1>2. h = IF cur > rs.head THEN cur ELSE rs.head
  BY <1>1, RollFollowsLedger DEF Snapshot
<1>3. /\ cur \in Int /\ BucketOf(latest) \in Int /\ cur <= BucketOf(latest)
      /\ rs.head \in Int /\ rs.head <= BucketOf(latest)
  <2>1. now \in Nat /\ latest \in Nat /\ now <= latest
    BY <1>1, TimesAssumption DEF SInv, ClockFollowed, IInv, TypeOK
  <2>2. cur \in Nat /\ BucketOf(latest) \in Nat /\ cur <= BucketOf(latest)
    BY <2>1, BucketBounds, BucketsFollowTime
  <2>3. rs.head \in Int
    BY <1>1, HeadIsInt
  <2>4. rs.head <= BucketOf(latest)
    BY DEF SInv, ClockFollowed
  <2> QED
    BY <2>2, <2>3, <2>4
<1>4. /\ now' = now /\ latest' = latest /\ setBack' = setBack
      /\ log' = log /\ ledger' = ledger
  BY DEF Snapshot
<1>5. ClockFollowed'
  <2>1. h <= BucketOf(latest) /\ h >= cur
    <3> HIDE DEF cur, h
    <3> QED
      BY <1>2, <1>3
  <2> QED
    BY <1>4, <2>1 DEF SInv, ClockFollowed
<1>6. CountsAgree'
  BY <1>4 DEF SInv, CountsAgree, Logged, Filed, LogPart, FiledPart
<1> QED
  BY <1>1, <1>5, <1>6 DEF SInv

\* Every behaviour keeps the invariant of the sums.
LEMMA SInvHolds == Spec => []SInv
<1>1. SInv /\ [Next]_vars => SInv'
  <2> SUFFICES ASSUME SInv, [Next]_vars PROVE SInv'
    OBVIOUS
  <2>1. ASSUME NEW t \in Times, ClockMoves(t) PROVE SInv'
    BY <2>1, ClockKeepsSInv
  <2>2. ASSUME NEW success \in BOOLEAN, RecordOutcome(success) PROVE SInv'
    BY <2>2, RecordKeepsSInv
  <2>3. CASE Snapshot
    BY <2>3, SnapshotKeepsSInv
  <2>4. CASE UNCHANGED vars
    <3>1. IInv'
      BY <2>4, NextKeepsIInv DEF SInv
    <3> QED
      BY <2>4, <3>1 DEF vars, SInv, ClockFollowed, CountsAgree, Logged, Filed, LogPart, FiledPart
  <2> QED
    BY <2>1, <2>2, <2>3, <2>4 DEF Next
<1> QED
  BY <1>1, InitCountsAgree, PTL DEF Spec
-----------------------------------------------------------------------------
(* From the sums by bucket number to what a Snapshot returns.              *)

Counter(errs, c) == IF errs THEN c.errs ELSE c.reqs

\* What a Snapshot returns is the sum of the last BucketCount buckets up to
\* head (health.go:64-67).
LEMMA TotalsAreFiled ==
  ASSUME SInv, rs.head \in Buckets, NEW errs \in BOOLEAN
  PROVE  Counter(errs, Totals(rs)) = Filed(errs, rs.head - BucketCount + 1)
<1> DEFINE h == rs.head
           B == h - BucketCount + 1
           f == [i \in Slots |-> IF errs THEN rs.buckets[i].errs ELSE rs.buckets[i].reqs]
           g == [b \in Int |-> IF b \in Buckets THEN FiledPart(errs)[b] ELSE 0]
           shift == [i \in Slots |-> h - i]
           Window == {shift[i] : i \in Slots}
           Both == {b \in Buckets : b \in Window}
<1>1. IInv /\ TypeOK /\ h \in Nat /\ h \in Buckets /\ BucketCount \in Nat /\ BucketCount # 0
  BY BucketsAreNaturals, BucketCountAssumption DEF SInv, IInv
<1>2. Counter(errs, Totals(rs)) = SumFunctionOnSet(f, Slots)
  <2>1. CASE errs
    <3>1. f = [i \in Slots |-> rs.buckets[i].errs]
      BY <2>1
    <3>2. DOMAIN f = Slots
      OBVIOUS
    <3>3. Totals(rs).errs = SumFunctionOnSet(f, DOMAIN f)
      BY <3>1 DEF Totals, FoldFunction, SumFunctionOnSet
    <3> QED
      BY <2>1, <3>2, <3>3 DEF Counter
  <2>2. CASE ~errs
    <3>1. f = [i \in Slots |-> rs.buckets[i].reqs]
      BY <2>2
    <3>2. DOMAIN f = Slots
      OBVIOUS
    <3>3. Totals(rs).reqs = SumFunctionOnSet(f, DOMAIN f)
      BY <3>1 DEF Totals, FoldFunction, SumFunctionOnSet
    <3> QED
      BY <2>2, <3>2, <3>3 DEF Counter
  <2> QED
    BY <2>1, <2>2
<1>3. \A b \in Buckets : FiledPart(errs)[b] \in Nat
  BY <1>1, PartsTyped
<1>4. \A b \in Int : g[b] \in Nat
  BY <1>3
<1>5. \A i \in Slots : shift[i] \in Int /\ f[i] = g[shift[i]] /\ f[i] \in Nat
  <2> SUFFICES ASSUME NEW i \in Slots
               PROVE  h - i \in Int /\ f[i] = g[h - i] /\ f[i] \in Nat
    OBVIOUS
  <2>1. h - i \in Int
    BY <1>1 DEF Slots
  <2>2. rs.buckets[i] = IF h - i \in Buckets THEN ledger[h - i] ELSE EmptyBucket
    BY <1>1 DEF IInv, WindowMatchesLedger
  <2>3. CASE h - i \in Buckets
    BY <1>3, <2>1, <2>2, <2>3 DEF FiledPart
  <2>4. CASE h - i \notin Buckets
    BY <2>1, <2>2, <2>4 DEF EmptyBucket
  <2> QED
    BY <2>1, <2>3, <2>4
<1>6. \A i, j \in Slots : shift[i] = shift[j] => i = j
  BY <1>1 DEF Slots
<1>7. IsFiniteSet(Slots)
  BY <1>1, FS_Interval DEF Slots
<1>8. SumFunctionOnSet(f, Slots) = SumFunctionOnSet(g, Window)
  <2> HIDE DEF f, g, shift
  <2> QED
    BY <1>5, <1>6, <1>7, SumReindex
<1>9. Window = B .. h
  <2>1. ASSUME NEW i \in Slots PROVE shift[i] \in B .. h
    BY <1>1 DEF Slots
  <2>2. ASSUME NEW b \in B .. h PROVE b \in Window
    <3>1. h - b \in Slots /\ shift[h - b] = b
      BY <1>1 DEF Slots
    <3> QED
      BY <3>1
  <2> QED
    BY <2>1, <2>2
<1>10. /\ IsFiniteSet(Window)
       /\ \A b \in Window : g[b] \in Nat
       /\ Both \in SUBSET Window
       /\ \A b \in Window \ Both : g[b] = 0
  <2>1. B \in Int /\ h \in Int
    BY <1>1
  <2>2. IsFiniteSet(B .. h)
    BY <2>1, FS_Interval
  <2>3. \A b \in B .. h : b \in Int
    BY <2>1
  <2>4. \A b \in Window \ Both : b \in Int /\ b \notin Buckets
    BY <1>9, <2>3
  <2> QED
    BY <1>4, <1>9, <2>2, <2>3, <2>4
<1>11. SumFunctionOnSet(g, Both) = SumFunctionOnSet(g, Window)
  <2> HIDE DEF g, Window, Both
  <2> QED
    BY <1>10, SumMonotone
<1>12. IsFiniteSet(Both)
  BY <1>10, FS_Subset
<1>13. \A b \in Both : g[b] = FiledPart(errs)[b] /\ FiledPart(errs)[b] \in Nat
  BY <1>3, BucketsAreNaturals
<1>14. SumFunctionOnSet(g, Both) = SumFunctionOnSet(FiledPart(errs), Both)
  <2> HIDE DEF g, Both
  <2> QED
    BY <1>12, <1>13, SumSame
<1>15. /\ IsFiniteSet(FiledSince(latest, B))
       /\ \A b \in FiledSince(latest, B) : FiledPart(errs)[b] \in Nat
       /\ Both \in SUBSET FiledSince(latest, B)
       /\ \A b \in FiledSince(latest, B) \ Both : FiledPart(errs)[b] = 0
  <2>1. latest \in Nat /\ BucketOf(latest) \in Nat /\ h <= BucketOf(latest)
    <3>1. latest \in Nat
      BY <1>1, TimesAssumption DEF TypeOK
    <3> QED
      BY <3>1, BucketBounds DEF SInv, ClockFollowed
  <2>2. IsFiniteSet(FiledSince(latest, B))
    BY <2>1, SinceFinite
  <2>3. \A b \in FiledSince(latest, B) : FiledPart(errs)[b] \in Nat
    BY <1>3 DEF FiledSince
  <2>4. ASSUME NEW b \in Both PROVE b \in FiledSince(latest, B)
    <3>1. b \in Buckets /\ b \in Nat /\ b \in B .. h
      BY <1>9, BucketsAreNaturals
    <3>2. b <= BucketOf(latest) /\ b >= B
      BY <1>1, <2>1, <3>1
    <3> QED
      BY <3>1, <3>2 DEF FiledSince
  <2>5. ASSUME NEW b \in FiledSince(latest, B), b \notin Both PROVE FiledPart(errs)[b] = 0
    <3>1. b \in Buckets /\ b \in Nat /\ b >= B
      BY BucketsAreNaturals DEF FiledSince
    <3>2. b \notin B .. h
      BY <1>9, <2>5, <3>1
    <3>3. b > h
      BY <1>1, <3>1, <3>2
    <3>4. ledger[b] = EmptyBucket
      BY <1>1, <3>1, <3>3 DEF IInv, WindowMatchesLedger
    <3> QED
      BY <3>1, <3>4 DEF FiledPart, EmptyBucket
  <2> QED
    BY <2>2, <2>3, <2>4, <2>5
<1>16. SumFunctionOnSet(FiledPart(errs), Both) = Filed(errs, B)
  <2>1. SumFunctionOnSet(FiledPart(errs), Both)
          = SumFunctionOnSet(FiledPart(errs), FiledSince(latest, B))
    <3> HIDE DEF Both, B
    <3> QED
      BY <1>15, SumMonotone
  <2> QED
    BY <2>1 DEF Filed
<1> QED
  BY <1>2, <1>8, <1>11, <1>14, <1>16

\* Recorded is the pair of the sums over the log.
LEMMA RecordedIsLogged ==
  ASSUME NEW errs \in BOOLEAN, NEW S
  PROVE  Counter(errs, Recorded(S)) = SumFunctionOnSet(LogPart(errs), S)
<1>1. CASE errs
  <2>1. LogPart(errs) = [t \in Times |-> log[t].errs]
    BY <1>1 DEF LogPart
  <2> QED
    BY <1>1, <2>1 DEF Counter, Recorded
<1>2. CASE ~errs
  <2>1. LogPart(errs) = [t \in Times |-> log[t].reqs]
    BY <1>2 DEF LogPart
  <2> QED
    BY <1>2, <2>1 DEF Counter, Recorded
<1> QED
  BY <1>1, <1>2

\* The order of two pairs of counters, one counter at a time.
LEMMA AtMostByCounter ==
  ASSUME NEW a, NEW b, \A errs \in BOOLEAN : Counter(errs, a) <= Counter(errs, b)
  PROVE  AtMost(a, b)
<1>1. Counter(TRUE, a) <= Counter(TRUE, b) /\ Counter(FALSE, a) <= Counter(FALSE, b)
  OBVIOUS
<1> QED
  BY <1>1 DEF Counter, AtMost

\* A smaller set of instants, of which those reached are finite in number, has
\* seen no more.
LEMMA LoggedMonotone ==
  ASSUME TypeOK, NEW errs \in BOOLEAN, NEW T, IsFiniteSet(T), T \subseteq Times,
         NEW S \in SUBSET T
  PROVE  SumFunctionOnSet(LogPart(errs), S) <= SumFunctionOnSet(LogPart(errs), T)
<1>1. \A t \in T : LogPart(errs)[t] \in Nat
  BY PartsTyped
<1> QED
  BY <1>1, SumMonotone

\* After a Snapshot the tracker has a head.
LEMMA ReadHasHead ==
  ASSUME SInv, read
  PROVE  /\ rs.head \in Buckets /\ rs.head \in Nat
         /\ now \in Nat /\ latest \in Nat /\ now <= latest
         /\ BucketOf(now) \in Nat /\ BucketOf(latest) \in Nat
         /\ BucketOf(now) <= rs.head /\ rs.head <= BucketOf(latest)
<1>1. now \in Nat /\ latest \in Nat /\ now <= latest
  BY TimesAssumption DEF SInv, ClockFollowed, IInv, TypeOK
<1>2. BucketOf(now) \in Nat /\ BucketOf(latest) \in Nat
  BY <1>1, BucketBounds
<1>3. BucketOf(now) <= rs.head /\ rs.head <= BucketOf(latest)
  <2>1. rs.head \in Int
    BY HeadIsInt DEF SInv
  <2> QED
    BY <1>2, <2>1 DEF SInv, ClockFollowed
<1>4. rs.head \in Nat \/ rs.head = -1
  BY HeadIsInt DEF SInv
<1>5. rs.head # -1
  BY <1>2, <1>3
<1>6. rs.head \in Buckets
  BY <1>5 DEF SInv, IInv, WindowMatchesLedger, NoHead
<1> QED
  BY <1>1, <1>2, <1>3, <1>4, <1>5, <1>6

\* What was recorded since a bucket is filed under it or a newer one, and the
\* tracker holds all that is filed under its last BucketCount buckets.
LEMMA SInvForgetsNothingEarly == SInv => NotForgottenEarly
<1> SUFFICES ASSUME SInv, read
             PROVE  AtMost(Recorded({t \in Times : t <= latest
                                       /\ BucketOf(t) > BucketOf(latest) - BucketCount}),
                           Totals(rs))
  BY DEF NotForgottenEarly
<1> DEFINE S == {t \in Times : t <= latest /\ BucketOf(t) > BucketOf(latest) - BucketCount}
           B == BucketOf(latest) - BucketCount + 1
           C == rs.head - BucketCount + 1
<1>1. /\ rs.head \in Buckets /\ rs.head \in Nat /\ latest \in Nat
      /\ BucketOf(latest) \in Nat /\ rs.head <= BucketOf(latest)
      /\ BucketCount \in Nat
  BY ReadHasHead, BucketCountAssumption
<1>2. B \in Int /\ C \in Int /\ C <= B
  BY <1>1
<1>3. S = Since(latest, B)
  <2>1. ASSUME NEW t \in Times
        PROVE  BucketOf(t) > BucketOf(latest) - BucketCount <=> BucketOf(t) >= B
    <3>1. BucketOf(t) \in Nat
      BY BucketOfInstant
    <3> QED
      BY <1>1, <3>1
  <2> QED
    BY <2>1 DEF Since
<1>4. Since(latest, B) \in SUBSET Since(latest, C)
  <2> SUFFICES ASSUME NEW t \in Times, BucketOf(t) >= B PROVE BucketOf(t) >= C
    BY DEF Since
  <2>1. BucketOf(t) \in Nat
    BY BucketOfInstant
  <2> HIDE DEF B, C
  <2> QED
    BY <1>2, <2>1
<1>5. IsFiniteSet(Since(latest, C)) /\ Since(latest, C) \subseteq Times
  BY <1>1, SinceFinite DEF Since
<1>6. TypeOK
  BY DEF SInv, IInv
<1> HIDE DEF B, C, S
<1>7. ASSUME NEW errs \in BOOLEAN
      PROVE  Counter(errs, Recorded(S)) <= Counter(errs, Totals(rs))
  <2>1. Counter(errs, Recorded(S)) = SumFunctionOnSet(LogPart(errs), Since(latest, B))
    BY <1>3, RecordedIsLogged
  <2>2. SumFunctionOnSet(LogPart(errs), Since(latest, B)) <= Logged(errs, C)
    BY <1>4, <1>5, <1>6, LoggedMonotone DEF Logged
  <2>3. Logged(errs, C) <= Filed(errs, C)
    BY <1>2 DEF SInv, CountsAgree
  <2>4. Counter(errs, Totals(rs)) = Filed(errs, C)
    BY <1>1, TotalsAreFiled DEF C
  <2>5. /\ Logged(errs, C) \in Nat /\ Filed(errs, C) \in Nat
        /\ Logged(errs, B) \in Nat
    BY <1>2, <1>6, SumsTyped
  <2>6. Logged(errs, B) = SumFunctionOnSet(LogPart(errs), Since(latest, B))
    BY DEF Logged
  <2> QED
    BY <2>1, <2>2, <2>3, <2>4, <2>5, <2>6
<1>8. AtMost(Recorded(S), Totals(rs))
  BY <1>7, AtMostByCounter
<1> QED
  BY <1>8 DEF S

\* With a clock that was never set back the totals are the sum over the instants
\* of the last BucketCount buckets, which lie between the two windows.
LEMMA SInvShowsTheWindow == SInv => SnapshotIsTheWindow
<1> DEFINE Younger(age) == {t \in Times : t <= now /\ now - t < age}
           Inner == Younger((BucketCount - 1) * BucketDuration + 1)
           Outer == Younger(BucketCount * BucketDuration)
           C == BucketOf(now) - BucketCount + 1
           D == BucketDuration
<1> SUFFICES ASSUME SInv, read, ~setBack
             PROVE  AtMost(Recorded(Inner), Totals(rs)) /\ AtMost(Totals(rs), Recorded(Outer))
  BY DEF SnapshotIsTheWindow
<1>1. /\ rs.head \in Buckets /\ now \in Nat /\ now = latest
      /\ BucketOf(now) \in Nat /\ rs.head = BucketOf(now)
      /\ BucketCount \in Nat /\ BucketCount # 0 /\ D \in Nat /\ D # 0
      /\ D * BucketOf(now) <= now /\ now < D * BucketOf(now) + D
      /\ C \in Int
  <2>1. /\ rs.head \in Buckets /\ rs.head \in Nat
        /\ now \in Nat /\ latest \in Nat
        /\ BucketOf(now) \in Nat
        /\ BucketOf(now) <= rs.head /\ rs.head <= BucketOf(latest)
    BY ReadHasHead
  <2>2. now = latest
    BY DEF SInv, ClockFollowed
  <2>3. rs.head = BucketOf(now)
    BY <2>1, <2>2
  <2>4. D * BucketOf(now) <= now /\ now < D * BucketOf(now) + D
    BY <2>1, BucketBounds
  <2> QED
    BY <2>1, <2>2, <2>3, <2>4, BucketCountAssumption, BucketDurationAssumption
<1>2. TypeOK
  BY DEF SInv, IInv
<1>3. \A t \in Times : /\ t \in Nat /\ BucketOf(t) \in Nat
                       /\ D * BucketOf(t) <= t /\ t < D * BucketOf(t) + D
  BY TimesAssumption, BucketBounds
<1>4. Inner \in SUBSET Since(now, C)
  <2> SUFFICES ASSUME NEW t \in Times, t <= now, now - t < (BucketCount - 1) * D + 1
               PROVE  BucketOf(t) >= C
    BY DEF Since
  <2> SUFFICES ASSUME BucketOf(t) < C PROVE FALSE
    BY <1>1, <1>3
  <2> DEFINE a == BucketOf(t)
             b == BucketOf(now)
  <2>1. /\ a \in Nat /\ b \in Nat /\ t \in Nat /\ t < D * a + D
        /\ D * b <= now /\ a + 1 <= b - BucketCount + 1
    BY <1>1, <1>3
  <2>2. now - t <= (BucketCount - 1) * D
    BY <1>1, <2>1
  <2> HIDE DEF a, b
  <2>3. PICK k \in Nat : b = a + BucketCount + k
    <3>1. b - a - BucketCount \in Nat /\ b = a + BucketCount + (b - a - BucketCount)
      BY <1>1, <2>1
    <3> QED
      BY <3>1
  <2>4. D * b = D * a + D * BucketCount + D * k
    BY <1>1, <2>1, <2>3
  <2>5. (BucketCount - 1) * D = D * BucketCount - D
    BY <1>1
  <2>6. D * a \in Nat /\ D * k \in Nat /\ D * BucketCount \in Nat
    BY <1>1, <2>1
  <2> QED
    BY <1>1, <2>1, <2>2, <2>4, <2>5, <2>6
<1>5. Since(now, C) \in SUBSET Outer
  <2> SUFFICES ASSUME NEW t \in Times, t <= now, BucketOf(t) >= C
               PROVE  now - t < BucketCount * D
    BY DEF Since
  <2> DEFINE a == BucketOf(t)
             b == BucketOf(now)
  <2>1. /\ a \in Nat /\ b \in Nat /\ t \in Nat /\ D * a <= t
        /\ now < D * b + D /\ a >= b - BucketCount + 1
    BY <1>1, <1>3
  <2> HIDE DEF a, b
  <2>2. PICK k \in Nat : a + BucketCount = b + 1 + k
    <3>1. a + BucketCount - b - 1 \in Nat /\ a + BucketCount = b + 1 + (a + BucketCount - b - 1)
      BY <1>1, <2>1
    <3> QED
      BY <3>1
  <2>3. D * a + D * BucketCount = D * b + D + D * k
    BY <1>1, <2>1, <2>2
  <2>4. BucketCount * D = D * BucketCount
    BY <1>1
  <2>5. D * a \in Nat /\ D * b \in Nat /\ D * k \in Nat /\ D * BucketCount \in Nat
    BY <1>1, <2>1
  <2> QED
    BY <1>1, <2>1, <2>3, <2>4, <2>5
<1>6. /\ IsFiniteSet(Since(now, C)) /\ Since(now, C) \subseteq Times
      /\ IsFiniteSet(Outer) /\ Outer \subseteq Times
  <2>1. IsFiniteSet(0 .. now)
    BY <1>1, FS_Interval
  <2>2. Outer \in SUBSET (0 .. now)
    <3> SUFFICES ASSUME NEW t \in Times, t <= now PROVE t \in 0 .. now
      OBVIOUS
    <3> QED
      BY <1>1, <1>3
  <2> HIDE DEF Outer
  <2>3. IsFiniteSet(Outer)
    BY <2>1, <2>2, FS_Subset
  <2> QED
    BY <1>1, <2>3, SinceFinite DEF Since, Outer
<1>7. ASSUME NEW errs \in BOOLEAN
      PROVE  Counter(errs, Totals(rs)) = SumFunctionOnSet(LogPart(errs), Since(now, C))
  <2>1. Counter(errs, Totals(rs)) = Filed(errs, rs.head - BucketCount + 1)
    BY <1>1, TotalsAreFiled
  <2>2. rs.head - BucketCount + 1 = C
    BY <1>1
  <2>3. Logged(errs, C) = Filed(errs, C)
    BY <1>1 DEF SInv, CountsAgree
  <2>4. Logged(errs, C) = SumFunctionOnSet(LogPart(errs), Since(now, C))
    BY <1>1 DEF Logged
  <2> QED
    BY <2>1, <2>2, <2>3, <2>4
<1> HIDE DEF C, Inner, Outer
<1>8. AtMost(Recorded(Inner), Totals(rs))
  <2>1. ASSUME NEW errs \in BOOLEAN
        PROVE  Counter(errs, Recorded(Inner)) <= Counter(errs, Totals(rs))
    BY <1>2, <1>4, <1>6, <1>7, RecordedIsLogged, LoggedMonotone
  <2> QED
    BY <2>1, AtMostByCounter
<1>9. AtMost(Totals(rs), Recorded(Outer))
  <2>1. ASSUME NEW errs \in BOOLEAN
        PROVE  Counter(errs, Totals(rs)) <= Counter(errs, Recorded(Outer))
    BY <1>2, <1>5, <1>6, <1>7, RecordedIsLogged, LoggedMonotone
  <2> QED
    BY <2>1, AtMostByCounter
<1> QED
  BY <1>8, <1>9

\* For all constants and however many instants: while the clock was never set
\* back a Snapshot counts every outcome of the last BucketCount - 1 bucket
\* durations, and none that is BucketCount durations old (health.go:13-20, 60-67).
THEOREM SnapshotsCountTheWindow == Spec => []SnapshotIsTheWindow
BY SInvHolds, SInvShowsTheWindow, PTL

\* For all constants, whatever the clock does: no outcome leaves the totals
\* before the clock has been seen BucketCount buckets later (health.go:85-109).
THEOREM NothingIsForgottenEarly == Spec => []NotForgottenEarly
BY SInvHolds, SInvForgetsNothingEarly, PTL
=============================================================================
