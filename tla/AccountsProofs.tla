--------------------------- MODULE AccountsProofs ---------------------------
(***************************************************************************)
(* The rows of the accounts and the pages that show them.  For any users,  *)
(* additions, edits and balances: one row per user with what was written   *)
(* last, and a balance the user has had (Accounts).  For any handlers,     *)
(* pages and capacity of the channels: Broadcast never sends on a channel  *)
(* that was closed, and news of the cards is on its way to every           *)
(* subscriber who needs it and did not lose it (Dashboard, at the end).    *)
(***************************************************************************)
EXTENDS Accounts, Dashboard, SequenceTheorems, TLAPS

OneRowPerUser == \A i, j \in DOMAIN rows : rows[i].id = rows[j].id => i = j

\* What was last written to a user's row is what the row says.
RowsTellTheTruth ==
  /\ truth \in [Users -> {None} \cup [key : Adders \cup {StoredKey}, paused : BOOLEAN]]
  /\ \A i \in DOMAIN rows :
       truth[rows[i].id] = [key |-> rows[i].key, paused |-> rows[i].paused]
  /\ \A u \in Users : (\A i \in DOMAIN rows : rows[i].id # u) => truth[u] = None

\* A balance that waits to be written has been the user's, like the rows'.
BalancesWereTrue ==
  /\ NoInventedBalance
  /\ \A a \in Adders :
       fetched[a] # Unknown => fetched[a] \in balance[Owner[a]] .. Balance0
  /\ syncing = "saving" =>
       got # Unknown /\ got \in balance[Head(todo).id] .. Balance0

RowsInv == TypeOK /\ OneRowPerUser /\ RowsTellTheTruth /\ BalancesWereTrue
-----------------------------------------------------------------------------
(* The loops over the rows, and what a write to one row leaves alone.      *)

LEMMA RowsBelongToUsers == TypeOK => \A i \in DOMAIN rows : rows[i].id \in Users
<1> SUFFICES ASSUME TypeOK, NEW i \in DOMAIN rows PROVE rows[i].id \in Users
  OBVIOUS
<1>1. rows[i] \in Row
  BY DEF TypeOK
<1> QED
  BY <1>1 DEF Row

\* The first row with the ID, which is the only one.
LEMMA FirstIsTheOnlyOne ==
  ASSUME NEW s \in Seq(Row), \A i, j \in DOMAIN s : s[i].id = s[j].id => i = j, NEW u
  PROVE  LET k == SelectInSeq(s, LAMBDA row : row.id = u) IN
         /\ k # 0 => k \in DOMAIN s /\ s[k].id = u
         /\ \A i \in DOMAIN s : s[i].id = u => k = i /\ k # 0
<1> DEFINE I == {i \in 1 .. Len(s) : s[i].id = u}
           k == SelectInSeq(s, LAMBDA row : row.id = u)
<1>1. DOMAIN s = 1 .. Len(s) /\ Len(s) \in Nat
  OBVIOUS
<1>2. k = IF I # {} THEN Min(I) ELSE 0
  BY DEF SelectInSeq
<1>3. ASSUME NEW i \in I PROVE I = {i} /\ Min(I) = i
  <2>1. I = {i}
    BY <1>1, <1>3
  <2>2. \A x \in I : x = i
    BY <2>1
  <2>3. i \in Int /\ i <= i
    BY <1>1
  <2> QED
    BY <2>1, <2>2, <2>3 DEF Min
<1> HIDE DEF k
<1>4. /\ k # 0 => k \in DOMAIN s /\ s[k].id = u
      /\ \A i \in DOMAIN s : s[i].id = u => k = i /\ k # 0
  BY <1>1, <1>2, <1>3
<1> QED
  BY <1>4 DEF k

LEMMA IndexFindsTheRow ==
  ASSUME TypeOK, OneRowPerUser, NEW u
  PROVE  /\ Has(u) => IndexOf(u) \in DOMAIN rows /\ rows[IndexOf(u)].id = u
         /\ \A i \in DOMAIN rows : rows[i].id = u => Has(u) /\ IndexOf(u) = i
  BY FirstIsTheOnlyOne DEF TypeOK, OneRowPerUser, Has, IndexOf

\* A row is replaced by another of the same user.
LEMMA ReplaceRow ==
  ASSUME TypeOK, OneRowPerUser, NEW u, Has(u), NEW r \in Row, r.id = u,
         rows' = [rows EXCEPT ![IndexOf(u)] = r]
  PROVE  /\ rows' \in Seq(Row) /\ DOMAIN rows' = DOMAIN rows
         /\ \A i \in DOMAIN rows : rows'[i] = IF rows[i].id = u THEN r ELSE rows[i]
         /\ OneRowPerUser'
<1>1. IndexOf(u) \in 1 .. Len(rows) /\ rows \in Seq(Row)
  BY IndexFindsTheRow DEF TypeOK
<1>2. /\ rows' \in Seq(Row) /\ Len(rows') = Len(rows)
      /\ \A j \in 1 .. Len(rows) : rows'[j] = IF j = IndexOf(u) THEN r ELSE rows[j]
  BY <1>1, ExceptSeq
<1> QED
  BY <1>1, <1>2, IndexFindsTheRow DEF OneRowPerUser, TypeOK

\* A row is added for a user who has none.
LEMMA AppendRow ==
  ASSUME TypeOK, OneRowPerUser, NEW r \in Row, ~Has(r.id), rows' = Append(rows, r)
  PROVE  /\ rows' \in Seq(Row) /\ DOMAIN rows' = DOMAIN rows \cup {Len(rows) + 1}
         /\ \A i \in DOMAIN rows : rows'[i] = rows[i] /\ rows[i].id # r.id
         /\ rows'[Len(rows) + 1] = r
         /\ OneRowPerUser'
<1>1. rows \in Seq(Row) /\ Len(rows) \in Nat /\ DOMAIN rows = 1 .. Len(rows)
  BY DEF TypeOK
<1>2. /\ rows' \in Seq(Row) /\ Len(rows') = Len(rows) + 1
      /\ DOMAIN rows' = 1 .. Len(rows')
      /\ \A i \in 1 .. Len(rows) : rows'[i] = rows[i]
      /\ rows'[Len(rows) + 1] = r
  BY <1>1
<1>3. \A i \in DOMAIN rows : rows[i].id # r.id
  BY IndexFindsTheRow
<1> QED
  BY <1>1, <1>2, <1>3 DEF OneRowPerUser

\* A user's row is removed and the rows behind it move up.
LEMMA RemoveRow ==
  ASSUME TypeOK, OneRowPerUser, NEW u, Has(u), rows' = RemoveAt(rows, IndexOf(u))
  PROVE  /\ rows' \in Seq(Row)
         /\ \A i \in DOMAIN rows' :
              \E j \in DOMAIN rows : rows'[i] = rows[j] /\ rows[j].id # u
         /\ \A j \in DOMAIN rows :
              rows[j].id # u => \E i \in DOMAIN rows' : rows'[i] = rows[j]
         /\ OneRowPerUser'
<1> DEFINE k == IndexOf(u)
           before == SubSeq(rows, 1, k - 1)
           behind == SubSeq(rows, k + 1, Len(rows))
           Was(i) == IF i < k THEN i ELSE i + 1
<1>1. /\ rows \in Seq(Row) /\ Len(rows) \in Nat /\ DOMAIN rows = 1 .. Len(rows)
      /\ \A i \in 1 .. Len(rows) : rows[i] \in Row
  BY DEF TypeOK
<1>2. k \in 1 .. Len(rows) /\ rows[k].id = u
  BY <1>1, IndexFindsTheRow
<1> HIDE DEF k
<1>3. /\ before \in Seq(Row) /\ Len(before) = k - 1
      /\ \A i \in 1 .. k - 1 : before[i] = rows[i]
  <2>1. \A i \in 1 .. k - 1 : rows[i] \in Row
    BY <1>1, <1>2
  <2>2. /\ before \in Seq(Row) /\ Len(before) = IF 1 <= k - 1 THEN k - 1 - 1 + 1 ELSE 0
        /\ \A i \in 1 .. k - 1 - 1 + 1 : before[i] = rows[1 + i - 1]
    BY <1>2, <2>1, SubSeqProperties
  <2> QED
    BY <1>2, <2>2
<1>4. /\ behind \in Seq(Row) /\ Len(behind) = Len(rows) - k
      /\ \A i \in 1 .. Len(rows) - k : behind[i] = rows[k + i]
  <2>1. \A i \in k + 1 .. Len(rows) : rows[i] \in Row
    BY <1>1, <1>2
  <2>2. /\ behind \in Seq(Row)
        /\ Len(behind) = IF k + 1 <= Len(rows) THEN Len(rows) - (k + 1) + 1 ELSE 0
        /\ \A i \in 1 .. Len(rows) - (k + 1) + 1 : behind[i] = rows[k + 1 + i - 1]
    BY <1>1, <1>2, <2>1, SubSeqProperties
  <2> HIDE DEF behind
  <2>3. Len(behind) = Len(rows) - k
    <3>1. k \in Int /\ k <= Len(rows) /\ Len(rows) \in Int
      BY <1>1, <1>2
    <3>2. Len(behind) = IF k + 1 <= Len(rows) THEN Len(rows) - (k + 1) + 1 ELSE 0
      BY <2>2
    <3> QED
      BY <3>1, <3>2
  <2>4. ASSUME NEW i \in 1 .. Len(rows) - k PROVE behind[i] = rows[k + i]
    <3>1. i \in 1 .. Len(rows) - (k + 1) + 1 /\ k + 1 + i - 1 = k + i
      BY <1>1, <1>2
    <3> QED
      BY <2>2, <3>1
  <2> QED
    BY <2>2, <2>3, <2>4
<1>5. rows' = before \o behind
  BY DEF RemoveAt, k
<1> HIDE DEF before, behind
<1>6. /\ rows' \in Seq(Row) /\ Len(rows') = Len(rows) - 1
      /\ \A i \in 1 .. Len(rows) - 1 :
           rows'[i] = IF i <= k - 1 THEN before[i] ELSE behind[i - (k - 1)]
  <2>1. /\ rows' \in Seq(Row) /\ Len(rows') = Len(before) + Len(behind)
        /\ \A i \in 1 .. Len(before) + Len(behind) :
             rows'[i] = IF i <= Len(before) THEN before[i] ELSE behind[i - Len(before)]
    BY <1>3, <1>4, <1>5, ConcatProperties
  <2>2. Len(before) + Len(behind) = Len(rows) - 1
    BY <1>1, <1>2, <1>3, <1>4
  <2> QED
    BY <1>3, <2>1, <2>2
<1>7. DOMAIN rows' = 1 .. Len(rows) - 1
  BY <1>6
<1>8. ASSUME NEW i \in DOMAIN rows' PROVE Was(i) \in DOMAIN rows /\ rows'[i] = rows[Was(i)]
  <2>1. CASE i < k
    BY <1>1, <1>2, <1>3, <1>6, <1>7, <2>1
  <2>2. CASE ~(i < k)
    BY <1>1, <1>2, <1>4, <1>6, <1>7, <2>2
  <2> QED
    BY <2>1, <2>2
<1>9. \A i \in DOMAIN rows' : Was(i) # k
  BY <1>2, <1>7
<1>10. \A j \in DOMAIN rows : rows[j].id # u => \E i \in DOMAIN rows' : Was(i) = j
  <2> SUFFICES ASSUME NEW j \in DOMAIN rows, rows[j].id # u
               PROVE  \E i \in DOMAIN rows' : Was(i) = j
    OBVIOUS
  <2>1. CASE j < k
    BY <1>1, <1>2, <1>7, <2>1
  <2>2. CASE ~(j < k)
    <3>1. j - 1 \in DOMAIN rows' /\ Was(j - 1) = j
      BY <1>1, <1>2, <1>7, <2>2
    <3> QED
      BY <3>1
  <2> QED
    BY <2>1, <2>2
<1>11. \A i, j \in DOMAIN rows' : Was(i) = Was(j) => i = j
  BY <1>2, <1>7
<1> HIDE DEF Was
<1>12. \A i \in DOMAIN rows' : rows[Was(i)].id # u
  BY <1>1, <1>2, <1>8, <1>9 DEF OneRowPerUser
<1>13. OneRowPerUser'
  BY <1>8, <1>11 DEF OneRowPerUser
<1> QED
  BY <1>6, <1>8, <1>10, <1>12, <1>13
-----------------------------------------------------------------------------
(* The invariant.                                                          *)

LEMMA InitRows == Init => RowsInv
<1> SUFFICES ASSUME Init PROVE RowsInv
  OBVIOUS
<1>1. CASE rows = <<>>
  <2>1. TypeOK
    BY <1>1, BoundsAssumption DEF Init, TypeOK, Unknown
  <2>2. \A i \in DOMAIN rows : FALSE
    BY <1>1
  <2>3. truth = [u \in Users |-> None]
    BY <1>1 DEF Init
  <2> QED
    BY <2>1, <2>2, <2>3
       DEF Init, RowsInv, OneRowPerUser, RowsTellTheTruth, BalancesWereTrue, NoInventedBalance
<1>2. ASSUME NEW k \in Known, NEW c \in {Unknown, Balance0},
             rows = <<[id |-> k, key |-> StoredKey, paused |-> FALSE, credits |-> c]>>
      PROVE  RowsInv
  <2>1. rows[1] \in Row
    BY <1>2, KnownAssumption, BoundsAssumption DEF Row
  <2>2. rows \in Seq(Row) /\ DOMAIN rows = {1}
    BY <1>2, <2>1
  <2>3. TypeOK
    BY <2>2, BoundsAssumption DEF Init, TypeOK, Unknown
  <2>4. /\ rows[1].id = k /\ rows[1].key = StoredKey /\ rows[1].credits = c
        /\ rows[1].paused = FALSE
    BY <1>2
  <2>5. truth = [u \in Users |-> IF u = k THEN [key |-> StoredKey, paused |-> FALSE] ELSE None]
    BY <1>2, <2>4 DEF Init
  <2>6. RowsTellTheTruth
    BY <2>2, <2>4, <2>5, KnownAssumption DEF RowsTellTheTruth
  <2>7. BalancesWereTrue
    BY <2>2, <2>4, KnownAssumption, BoundsAssumption
       DEF Init, BalancesWereTrue, NoInventedBalance
  <2> QED
    BY <2>2, <2>3, <2>6, <2>7 DEF RowsInv, OneRowPerUser
<1> QED
  BY <1>1, <1>2 DEF Init

Truths == {None} \cup [key : Adders \cup {StoredKey}, paused : BOOLEAN]

\* A write that replaces one row keeps the rows right if it records what it
\* wrote and writes a balance that was true.
LEMMA RewriteKeeps ==
  ASSUME RowsInv, NEW u \in Users, Has(u), NEW r \in Row, r.id = u,
         rows' = [rows EXCEPT ![IndexOf(u)] = r], balance' = balance,
         truth' \in [Users -> Truths],
         \A v \in Users : truth'[v] = IF v = u THEN [key |-> r.key, paused |-> r.paused]
                                               ELSE truth[v],
         r.credits # Unknown => r.credits \in balance[u] .. Balance0
  PROVE  rows' \in Seq(Row) /\ OneRowPerUser' /\ RowsTellTheTruth' /\ NoInventedBalance'
<1> USE DEF RowsInv
<1>1. /\ rows' \in Seq(Row) /\ DOMAIN rows' = DOMAIN rows
      /\ \A i \in DOMAIN rows : rows'[i] = IF rows[i].id = u THEN r ELSE rows[i]
      /\ OneRowPerUser'
  BY ReplaceRow
<1>2. \A i \in DOMAIN rows : rows[i].id \in Users /\ rows'[i].id = rows[i].id
  BY <1>1, RowsBelongToUsers
<1>3. IndexOf(u) \in DOMAIN rows /\ rows[IndexOf(u)].id = u
  BY IndexFindsTheRow
<1>4. RowsTellTheTruth'
  <2>1. ASSUME NEW i \in DOMAIN rows'
        PROVE  truth'[rows'[i].id] = [key |-> rows'[i].key, paused |-> rows'[i].paused]
    <3>1. CASE rows[i].id = u
      <4>1. rows'[i] = r
        BY <1>1, <2>1, <3>1
      <4> QED
        BY <4>1
    <3>2. CASE rows[i].id # u
      <4>1. rows'[i] = rows[i] /\ rows[i].id \in Users
        BY <1>1, <1>2, <2>1, <3>2
      <4> QED
        BY <1>1, <2>1, <3>2, <4>1 DEF RowsTellTheTruth
    <3> QED
      BY <3>1, <3>2
  <2>2. ASSUME NEW v \in Users, \A i \in DOMAIN rows' : rows'[i].id # v
        PROVE  truth'[v] = None
    <3>1. v # u /\ \A i \in DOMAIN rows : rows[i].id # v
      BY <1>1, <1>2, <1>3, <2>2
    <3> QED
      BY <3>1 DEF RowsTellTheTruth
  <2> QED
    BY <2>1, <2>2 DEF RowsTellTheTruth, Truths
<1>5. NoInventedBalance'
  <2> SUFFICES ASSUME NEW i \in DOMAIN rows', rows'[i].credits # Unknown
               PROVE  rows'[i].credits \in balance'[rows'[i].id] .. Balance0
    BY DEF NoInventedBalance
  <2>1. CASE rows[i].id = u
    BY <1>1, <2>1
  <2>2. CASE rows[i].id # u
    BY <1>1, <2>2 DEF BalancesWereTrue, NoInventedBalance
  <2> QED
    BY <2>1, <2>2
<1> QED
  BY <1>1, <1>4, <1>5

\* addAccount: a refresh keeps the pause and a known balance, an addition
\* comes only where there is no row.
LEMMA SaveAccountKeeps ==
  ASSUME RowsInv, NEW a \in Adders, SaveAccount(a)
  PROVE  RowsInv'
<1> DEFINE u == Owner[a]
<1> USE DEF RowsInv
<1>1. /\ u \in Users /\ balance' = balance /\ fetched' = fetched
      /\ UNCHANGED <<syncing, todo, got, edits>>
      /\ phase' \in [Adders -> {"idle", "billing", "saving", "done", "failed"}]
  BY OwnerAssumption DEF SaveAccount, poller, TypeOK
<1>2. /\ fetched[a] \in {Unknown} \cup 1 .. Balance0
      /\ fetched[a] # Unknown => fetched[a] \in balance[u] .. Balance0
  BY DEF TypeOK, BalancesWereTrue
<1>3. rows' \in Seq(Row) /\ OneRowPerUser' /\ RowsTellTheTruth' /\ NoInventedBalance'
  <2>1. CASE Has(u)
    <3> DEFINE old == rows[IndexOf(u)]
               r   == Refreshed(old, a, fetched[a])
    <3>1. IndexOf(u) \in DOMAIN rows /\ old.id = u /\ old \in Row
      BY <2>1, IndexFindsTheRow DEF TypeOK
    <3>2. /\ r \in Row /\ r.id = u /\ r.key = a /\ r.paused = old.paused
          /\ r.credits = IF fetched[a] = Unknown THEN old.credits ELSE fetched[a]
      <4>1. r \in Row
        BY <3>1, <1>2 DEF Refreshed, Row
      <4>2. r.id = old.id /\ r.key = a
            /\ r.credits = IF fetched[a] = Unknown THEN old.credits ELSE fetched[a]
        BY <3>1, <1>2 DEF Refreshed, Row
      <4>3. r.paused = old.paused
        BY <3>1, Zenon DEF Refreshed, Row
      <4> QED
        BY <3>1, <4>1, <4>2, <4>3
    <3>3. rows' = [rows EXCEPT ![IndexOf(u)] = r]
      BY <2>1 DEF SaveAccount, Upsert
    <3>4. r.credits # Unknown => r.credits \in balance[u] .. Balance0
      BY <1>2, <3>1, <3>2 DEF BalancesWereTrue, NoInventedBalance
    <3>5. truth[u] = [key |-> old.key, paused |-> old.paused]
      BY <1>1, <3>1 DEF RowsTellTheTruth
    <3>6. truth[u] # None
      BY <3>5 DEF None
    <3>7. truth' = [truth EXCEPT ![u] = [@ EXCEPT !.key = a]]
      BY <1>1, <3>6 DEF SaveAccount, RowsTellTheTruth
    <3>8. [truth[u] EXCEPT !.key = a] = [key |-> a, paused |-> old.paused]
      BY <3>5
    <3>9. truth' = [truth EXCEPT ![u] = [key |-> r.key, paused |-> r.paused]]
      BY <3>2, <3>7, <3>8
    <3>10. [key |-> r.key, paused |-> r.paused] \in Truths
      BY <3>2 DEF Truths, Row
    <3> HIDE DEF r
    <3>11. /\ truth' \in [Users -> Truths]
           /\ \A v \in Users : truth'[v] = IF v = u THEN [key |-> r.key, paused |-> r.paused]
                                                     ELSE truth[v]
      BY <1>1, <3>9, <3>10 DEF RowsTellTheTruth, Truths
    <3> QED
      BY <1>1, <2>1, <3>2, <3>3, <3>4, <3>11, RewriteKeeps
  <2>2. CASE ~Has(u)
    <3> DEFINE r == [id |-> u, key |-> a, paused |-> FALSE, credits |-> fetched[a]]
    <3>1. r \in Row
      BY <1>1, <1>2 DEF Row
    <3>2. rows' = Append(rows, r)
      BY <2>2 DEF SaveAccount, Upsert
    <3>3. r.id = u /\ r.key = a /\ r.paused = FALSE /\ r.credits = fetched[a]
      OBVIOUS
    <3> HIDE DEF r
    <3>4. /\ rows' \in Seq(Row) /\ DOMAIN rows' = DOMAIN rows \cup {Len(rows) + 1}
          /\ \A i \in DOMAIN rows : rows'[i] = rows[i] /\ rows[i].id # u
          /\ rows'[Len(rows) + 1] = r
          /\ OneRowPerUser'
      BY <2>2, <3>1, <3>2, <3>3, AppendRow
    <3>5. truth[u] = None
      BY <1>1, <3>4 DEF RowsTellTheTruth
    <3>6. truth' = [truth EXCEPT ![u] = [key |-> a, paused |-> FALSE]]
      BY <1>1, <3>5 DEF SaveAccount, RowsTellTheTruth
    <3>7. [key |-> a, paused |-> FALSE] \in Truths
      BY DEF Truths
    <3>8. RowsTellTheTruth'
      <4>1. truth' \in [Users -> Truths]
        BY <3>6, <3>7 DEF RowsTellTheTruth, Truths
      <4>2. ASSUME NEW i \in DOMAIN rows'
            PROVE  truth'[rows'[i].id] = [key |-> rows'[i].key, paused |-> rows'[i].paused]
        <5>1. CASE i \in DOMAIN rows
          BY <3>4, <3>6, <5>1 DEF RowsTellTheTruth, TypeOK, Row
        <5>2. CASE i = Len(rows) + 1
          <6>1. rows'[i] = r
            BY <3>4, <5>2
          <6>2. truth'[u] = [key |-> a, paused |-> FALSE]
            BY <1>1, <3>6 DEF RowsTellTheTruth
          <6> QED
            BY <3>3, <6>1, <6>2
        <5> QED
          BY <3>4, <4>2, <5>1, <5>2
      <4>3. ASSUME NEW v \in Users, \A i \in DOMAIN rows' : rows'[i].id # v
            PROVE  truth'[v] = None
        <5>1. v # u
          BY <3>3, <3>4, <4>3
        <5>2. \A i \in DOMAIN rows : rows[i].id # v
          BY <3>4, <4>3
        <5> QED
          BY <3>6, <5>1, <5>2 DEF RowsTellTheTruth
      <4> QED
        BY <4>1, <4>2, <4>3 DEF RowsTellTheTruth, Truths
    <3>9. NoInventedBalance'
      BY <1>1, <1>2, <3>3, <3>4 DEF NoInventedBalance, BalancesWereTrue
    <3> QED
      BY <3>4, <3>8, <3>9
  <2> QED
    BY <2>1, <2>2
<1>4. TypeOK'
  BY <1>1, <1>3 DEF TypeOK
<1> QED
  BY <1>1, <1>3, <1>4 DEF BalancesWereTrue

\* The poller's write changes a balance, where the row still is.
LEMMA SaveCreditsKeeps == RowsInv /\ SaveCredits => RowsInv'
<1> SUFFICES ASSUME RowsInv, SaveCredits PROVE RowsInv'
  OBVIOUS
<1> DEFINE u == Head(todo).id
<1> USE DEF RowsInv
<1>1. /\ syncing = "saving" /\ syncing' = "cycle" /\ todo' = Tail(todo)
      /\ UNCHANGED <<balance, phase, fetched, got, edits, truth>>
  BY DEF SaveCredits, adders
<1>2. Head(todo) \in Row /\ Tail(todo) \in Seq(Row)
  BY <1>1, HeadTailProperties DEF TypeOK
<1>3. u \in Users /\ got \in 1 .. Balance0 /\ got \in balance[u] .. Balance0
  BY <1>1, <1>2 DEF TypeOK, Row, BalancesWereTrue
<1>4. rows' \in Seq(Row) /\ OneRowPerUser' /\ RowsTellTheTruth' /\ NoInventedBalance'
  <2>1. CASE rows' = rows
    BY <1>1, <2>1 DEF TypeOK, OneRowPerUser, RowsTellTheTruth, NoInventedBalance,
                      BalancesWereTrue
  <2>2. CASE rows' # rows
    <3> DEFINE old == rows[IndexOf(u)]
               r   == [old EXCEPT !.credits = got]
    <3>1. Has(u) /\ rows' = [rows EXCEPT ![IndexOf(u)].credits = got]
      BY <2>2 DEF SaveCredits, SetAccountCredits
    <3>2. IndexOf(u) \in DOMAIN rows /\ old.id = u /\ old \in Row
      BY <3>1, IndexFindsTheRow DEF TypeOK
    <3>3. rows' = [rows EXCEPT ![IndexOf(u)] = r]
      BY <3>1, <3>2
    <3>4. r \in Row /\ r.id = u /\ r.key = old.key /\ r.credits = got
      BY <1>3, <3>2 DEF Row
    <3>5. r.paused = old.paused
      BY <3>2, Zenon DEF Row
    <3>6. truth[u] = [key |-> r.key, paused |-> r.paused]
      BY <3>2, <3>4, <3>5 DEF RowsTellTheTruth
    <3> HIDE DEF r
    <3>7. /\ truth' \in [Users -> Truths]
          /\ \A v \in Users : truth'[v] = IF v = u THEN [key |-> r.key, paused |-> r.paused]
                                                    ELSE truth[v]
      BY <1>1, <3>6 DEF RowsTellTheTruth, Truths
    <3> QED
      BY <1>1, <1>3, <3>1, <3>3, <3>4, <3>7, RewriteKeeps
  <2> QED
    BY <2>1, <2>2
<1>5. TypeOK'
  BY <1>1, <1>2, <1>4 DEF TypeOK
<1> QED
  BY <1>1, <1>4, <1>5 DEF BalancesWereTrue

\* A pause or a resume.
LEMMA PauseKeeps ==
  ASSUME RowsInv, NEW u \in Users, NEW paused \in BOOLEAN, SetAccountPaused(u, paused)
  PROVE  RowsInv'
<1> DEFINE old == rows[IndexOf(u)]
           r   == [old EXCEPT !.paused = paused]
<1> USE DEF RowsInv
<1>1. /\ Has(u) /\ edits' \in 0 .. MaxEdits
      /\ rows' = [rows EXCEPT ![IndexOf(u)].paused = paused]
      /\ truth' = [truth EXCEPT ![u].paused = paused]
      /\ UNCHANGED <<balance, phase, fetched, syncing, todo, got>>
  BY BoundsAssumption DEF SetAccountPaused, adders, poller, TypeOK
<1>2. IndexOf(u) \in DOMAIN rows /\ old.id = u /\ old \in Row
  BY <1>1, IndexFindsTheRow DEF TypeOK
<1>3. rows' = [rows EXCEPT ![IndexOf(u)] = r]
  BY <1>1, <1>2
<1>4. r.id = u /\ r.key = old.key /\ r.credits = old.credits
  BY <1>2 DEF Row
<1>5. r.paused = paused
  BY <1>2, Zenon DEF Row
<1>6. r \in Row
  BY <1>2 DEF Row
<1>7. truth[u] = [key |-> old.key, paused |-> old.paused]
  BY <1>2 DEF RowsTellTheTruth
<1>8. [truth[u] EXCEPT !.paused = paused] = [key |-> old.key, paused |-> paused]
  BY <1>7
<1>9. truth' = [truth EXCEPT ![u] = [key |-> r.key, paused |-> r.paused]]
  BY <1>1, <1>4, <1>5, <1>8
<1>10. [key |-> r.key, paused |-> r.paused] \in Truths
  BY <1>6 DEF Truths, Row
<1>11. r.credits # Unknown => r.credits \in balance[u] .. Balance0
  BY <1>2, <1>4 DEF BalancesWereTrue, NoInventedBalance
<1> HIDE DEF r
<1>12. /\ truth' \in [Users -> Truths]
       /\ \A v \in Users : truth'[v] = IF v = u THEN [key |-> r.key, paused |-> r.paused]
                                                 ELSE truth[v]
  BY <1>9, <1>10 DEF RowsTellTheTruth, Truths
<1>13. rows' \in Seq(Row) /\ OneRowPerUser' /\ RowsTellTheTruth' /\ NoInventedBalance'
  BY <1>1, <1>3, <1>4, <1>6, <1>11, <1>12, RewriteKeeps
<1>14. TypeOK'
  BY <1>1, <1>13 DEF TypeOK
<1> QED
  BY <1>1, <1>13, <1>14 DEF BalancesWereTrue

\* A removal takes the user's only row.
LEMMA DeleteKeeps ==
  ASSUME RowsInv, NEW u \in Users, DeleteAccount(u)
  PROVE  RowsInv'
<1> USE DEF RowsInv
<1>1. /\ Has(u) /\ edits' \in 0 .. MaxEdits
      /\ rows' = RemoveAt(rows, IndexOf(u)) /\ truth' = [truth EXCEPT ![u] = None]
      /\ UNCHANGED <<balance, phase, fetched, syncing, todo, got>>
  BY BoundsAssumption DEF DeleteAccount, adders, poller, TypeOK
<1>2. /\ rows' \in Seq(Row)
      /\ \A i \in DOMAIN rows' :
           \E j \in DOMAIN rows : rows'[i] = rows[j] /\ rows[j].id # u
      /\ \A j \in DOMAIN rows :
           rows[j].id # u => \E i \in DOMAIN rows' : rows'[i] = rows[j]
      /\ OneRowPerUser'
  BY <1>1, RemoveRow
<1>3. RowsTellTheTruth'
  <2>1. truth' \in [Users -> {None} \cup [key : Adders \cup {StoredKey}, paused : BOOLEAN]]
    BY <1>1 DEF RowsTellTheTruth
  <2>2. ASSUME NEW i \in DOMAIN rows'
        PROVE  truth'[rows'[i].id] = [key |-> rows'[i].key, paused |-> rows'[i].paused]
    <3>1. PICK j \in DOMAIN rows : rows'[i] = rows[j] /\ rows[j].id # u
      BY <1>2
    <3>2. rows[j].id \in Users
      BY RowsBelongToUsers
    <3>3. truth'[rows[j].id] = truth[rows[j].id]
      BY <1>1, <3>1, <3>2 DEF RowsTellTheTruth
    <3>4. truth[rows[j].id] = [key |-> rows[j].key, paused |-> rows[j].paused]
      BY DEF RowsTellTheTruth
    <3> QED
      BY <3>1, <3>3, <3>4
  <2>3. ASSUME NEW v \in Users, \A i \in DOMAIN rows' : rows'[i].id # v
        PROVE  truth'[v] = None
    <3>1. CASE v = u
      BY <1>1, <3>1 DEF RowsTellTheTruth
    <3>2. CASE v # u
      <4>1. \A j \in DOMAIN rows : rows[j].id # v
        BY <1>2, <2>3, <3>2
      <4> QED
        BY <1>1, <3>2, <4>1 DEF RowsTellTheTruth
    <3> QED
      BY <3>1, <3>2
  <2> QED
    BY <2>1, <2>2, <2>3 DEF RowsTellTheTruth
<1>4. NoInventedBalance'
  BY <1>1, <1>2 DEF NoInventedBalance, BalancesWereTrue
<1>5. TypeOK'
  BY <1>1, <1>2 DEF TypeOK
<1> QED
  BY <1>1, <1>2, <1>3, <1>4, <1>5 DEF BalancesWereTrue

\* Calls to Command Code, failed writes and the poller's walk leave the rows
\* alone; what they are told is true at that moment.
LEMMA CallsKeep ==
  ASSUME RowsInv,
         \/ \E a \in Adders : Whoami(a) \/ BillingCredits(a) \/ SaveFails(a)
         \/ BeginCycle \/ NextRow \/ AskBilling
  PROVE  RowsInv'
<1> USE DEF RowsInv
<1>0. UNCHANGED <<rows, balance, edits, truth>>
  BY DEF Whoami, BillingCredits, SaveFails, BeginCycle, NextRow, AskBilling
<1>1. OneRowPerUser' /\ RowsTellTheTruth' /\ NoInventedBalance'
  BY <1>0 DEF OneRowPerUser, RowsTellTheTruth, NoInventedBalance, BalancesWereTrue
<1>2. ASSUME NEW a \in Adders, Whoami(a) \/ SaveFails(a)
      PROVE  TypeOK' /\ BalancesWereTrue'
  BY <1>0, <1>1, <1>2 DEF Whoami, SaveFails, poller, TypeOK, BalancesWereTrue
<1>3. ASSUME NEW a \in Adders, BillingCredits(a) PROVE TypeOK' /\ BalancesWereTrue'
  <2>1. PICK answer \in {balance[Owner[a]], Unknown} :
          fetched' = [fetched EXCEPT ![a] = answer]
    BY <1>3 DEF BillingCredits
  <2>2. balance[Owner[a]] \in 1 .. Balance0
    BY OwnerAssumption DEF TypeOK
  <2> QED
    BY <1>0, <1>1, <1>3, <2>1, <2>2, BoundsAssumption
       DEF BillingCredits, poller, TypeOK, BalancesWereTrue
<1>4. CASE BeginCycle
  BY <1>0, <1>1, <1>4 DEF BeginCycle, adders, TypeOK, BalancesWereTrue
<1>5. CASE NextRow
  BY <1>0, <1>1, <1>5 DEF NextRow, adders, TypeOK, BalancesWereTrue
<1>6. CASE AskBilling
  <2>1. Head(todo) \in Row
    BY <1>6, HeadTailProperties DEF AskBilling, TypeOK
  <2>2. balance[Head(todo).id] \in 1 .. Balance0
    BY <2>1 DEF TypeOK, Row
  <2> QED
    BY <1>0, <1>1, <1>6, <2>2, BoundsAssumption
       DEF AskBilling, adders, TypeOK, BalancesWereTrue, Unknown
<1> QED
  BY <1>1, <1>2, <1>3, <1>4, <1>5, <1>6

\* A balance that falls leaves every balance told before at least as high.
LEMMA SpendKeeps ==
  ASSUME RowsInv, NEW u \in Users, Spend(u)
  PROVE  RowsInv'
<1> USE DEF RowsInv
<1>1. /\ balance[u] \in 1 .. Balance0 /\ balance[u] > 1
      /\ balance' = [balance EXCEPT ![u] = @ - 1]
      /\ UNCHANGED <<rows, phase, fetched, syncing, todo, got, edits, truth>>
  BY DEF Spend, adders, poller, TypeOK
<1>2. balance' \in [Users -> 1 .. Balance0]
  BY <1>1, BoundsAssumption DEF TypeOK
<1>3. ASSUME NEW v \in Users, NEW x \in balance[v] .. Balance0
      PROVE  x \in balance'[v] .. Balance0
  BY <1>1, <1>2, BoundsAssumption DEF TypeOK
<1>4. \A i \in DOMAIN rows : rows[i].id \in Users
  BY RowsBelongToUsers
<1>5. syncing = "saving" => Head(todo).id \in Users
  <2>1. syncing = "saving" => Head(todo) \in Row
    BY HeadTailProperties DEF TypeOK
  <2> QED
    BY <2>1 DEF Row
<1>6. BalancesWereTrue'
  BY <1>1, <1>3, <1>4, <1>5, OwnerAssumption DEF BalancesWereTrue, NoInventedBalance
<1> QED
  BY <1>1, <1>2, <1>6 DEF TypeOK, OneRowPerUser, RowsTellTheTruth

LEMMA NextRowsInv == RowsInv /\ [Next]_vars => RowsInv'
<1> SUFFICES ASSUME RowsInv, [Next]_vars PROVE RowsInv'
  OBVIOUS
<1>1. CASE UNCHANGED vars
  BY <1>1 DEF vars, adders, poller, RowsInv, TypeOK, OneRowPerUser, RowsTellTheTruth,
              BalancesWereTrue, NoInventedBalance
<1> QED
  BY <1>1, CallsKeep, SaveAccountKeeps, SaveCreditsKeeps, PauseKeeps, DeleteKeeps,
     SpendKeeps DEF Next, Poller

\* The inductive invariant.
LEMMA RowsInvHolds == Spec => []RowsInv
BY InitRows, NextRowsInv, PTL DEF Spec

\* However additions, the poller, pauses and removals interleave: there is one
\* row per user, with the key and the pause written last (oauth.go:193-269,
\* store/traffic.go:56-97).
THEOREM RowsAreRight == Spec => [](TypeOK /\ RowsAreLastWrites)
<1>1. RowsInv => RowsAreLastWrites
  <2> SUFFICES ASSUME RowsInv, NEW u \in Users
               PROVE  IF Has(u) THEN truth[u] = [key |-> rows[IndexOf(u)].key,
                                                 paused |-> rows[IndexOf(u)].paused]
                                ELSE truth[u] = None
    BY DEF RowsInv, OneRowPerUser, RowsAreLastWrites
  <2> QED
    BY IndexFindsTheRow DEF RowsInv, RowsTellTheTruth
<1>2. RowsInv => TypeOK
  BY DEF RowsInv
<1> QED
  BY RowsInvHolds, <1>1, <1>2, PTL

\* A balance in a row is one its user has had, however old the answer that
\* was written and whoever wrote it (oauth.go:206-257, sync.go:46-66).
THEOREM BalancesAreReal == Spec => []NoInventedBalance
<1>1. RowsInv => NoInventedBalance
  BY DEF RowsInv, BalancesWereTrue
<1> QED
  BY RowsInvHolds, <1>1, PTL
-----------------------------------------------------------------------------
(* What a step does to a balance.                                          *)

\* A row that lives through a step does not lose its balance.
BalancesStay ==
  \A i \in DOMAIN rows, j \in DOMAIN rows' :
    (rows[i].id = rows'[j].id /\ rows[i].credits # Unknown) => rows'[j].credits # Unknown

LEMMA SaveAccountKeepsBalance ==
  ASSUME RowsInv, NEW a \in Adders, SaveAccount(a)
  PROVE  BalancesStay
<1> DEFINE u == Owner[a]
<1> USE DEF RowsInv, BalancesStay
<1>1. fetched[a] \in {Unknown} \cup 1 .. Balance0
  BY DEF TypeOK
<1>2. CASE Has(u)
  <2> DEFINE old == rows[IndexOf(u)]
             r   == Refreshed(old, a, fetched[a])
  <2>1. IndexOf(u) \in DOMAIN rows /\ old.id = u /\ old \in Row
    BY <1>2, IndexFindsTheRow DEF TypeOK
  <2>2. /\ r \in Row /\ r.id = u
        /\ r.credits = IF fetched[a] = Unknown THEN old.credits ELSE fetched[a]
    BY <1>1, <2>1 DEF Refreshed, Row
  <2>3. rows' = [rows EXCEPT ![IndexOf(u)] = r]
    BY <1>2 DEF SaveAccount, Upsert
  <2> HIDE DEF r
  <2>4. /\ DOMAIN rows' = DOMAIN rows
        /\ \A i \in DOMAIN rows : rows'[i] = IF rows[i].id = u THEN r ELSE rows[i]
    BY <1>2, <2>2, <2>3, ReplaceRow
  <2>5. \A i \in DOMAIN rows : rows'[i].id = rows[i].id
    BY <2>2, <2>4
  <2>6. \A i \in DOMAIN rows : rows[i].id = u => rows[i] = old
    BY <1>2, IndexFindsTheRow
  <2>7. ASSUME NEW i \in DOMAIN rows, rows[i].credits # Unknown
        PROVE  rows'[i].credits # Unknown
    BY <2>2, <2>4, <2>6, <2>7
  <2> QED
    BY <2>4, <2>5, <2>7 DEF OneRowPerUser
<1>3. CASE ~Has(u)
  <2> DEFINE r == [id |-> u, key |-> a, paused |-> FALSE, credits |-> fetched[a]]
  <2>1. r \in Row
    BY <1>1, OwnerAssumption DEF Row
  <2>2. rows' = Append(rows, r)
    BY <1>3 DEF SaveAccount, Upsert
  <2>3. r.id = u
    OBVIOUS
  <2> HIDE DEF r
  <2>4. /\ DOMAIN rows' = DOMAIN rows \cup {Len(rows) + 1}
        /\ \A i \in DOMAIN rows : rows'[i] = rows[i] /\ rows[i].id # u
        /\ rows'[Len(rows) + 1] = r
    BY <1>3, <2>1, <2>2, <2>3, AppendRow
  <2> QED
    BY <2>3, <2>4 DEF OneRowPerUser
<1> QED
  BY <1>2, <1>3

\* A row replaced by one that knows no less keeps what was known.
LEMMA ReplaceKeepsBalances ==
  ASSUME RowsInv, NEW u, Has(u), NEW r \in Row, r.id = u,
         rows[IndexOf(u)].credits # Unknown => r.credits # Unknown,
         rows' = [rows EXCEPT ![IndexOf(u)] = r]
  PROVE  BalancesStay
<1>1. /\ DOMAIN rows' = DOMAIN rows
      /\ \A i \in DOMAIN rows : rows'[i] = IF rows[i].id = u THEN r ELSE rows[i]
  BY ReplaceRow DEF RowsInv
<1>2. \A i \in DOMAIN rows : rows'[i].id = rows[i].id
  BY <1>1
<1>3. \A i \in DOMAIN rows : rows[i].id = u => rows[i] = rows[IndexOf(u)]
  BY IndexFindsTheRow DEF RowsInv
<1> QED
  BY <1>1, <1>2, <1>3 DEF RowsInv, OneRowPerUser, BalancesStay

LEMMA NextKeepsBalances == RowsInv /\ [Next]_vars => BalancesStay
<1> SUFFICES ASSUME RowsInv, [Next]_vars PROVE BalancesStay
  OBVIOUS
<1> USE DEF RowsInv, BalancesStay
<1>1. CASE rows' = rows
  BY <1>1 DEF OneRowPerUser
<1>2. CASE SaveCredits
  <2> DEFINE u == Head(todo).id
             old == rows[IndexOf(u)]
             r   == [old EXCEPT !.credits = got]
  <2>1. got # Unknown /\ got \in 1 .. Balance0
    BY <1>2 DEF SaveCredits, BalancesWereTrue, TypeOK
  <2>2. CASE Has(u) /\ rows' # rows
    <3>1. IndexOf(u) \in DOMAIN rows /\ old.id = u /\ old \in Row
      BY <2>2, IndexFindsTheRow DEF TypeOK
    <3>2. rows' = [rows EXCEPT ![IndexOf(u)].credits = got]
      BY <1>2, <2>2 DEF SaveCredits, SetAccountCredits
    <3>3. rows' = [rows EXCEPT ![IndexOf(u)] = r]
      BY <3>1, <3>2
    <3>4. r \in Row /\ r.id = u /\ r.credits = got
      BY <2>1, <3>1 DEF Row
    <3> QED
      BY <2>1, <2>2, <3>3, <3>4, ReplaceKeepsBalances
  <2> QED
    BY <1>1, <1>2, <2>2 DEF SaveCredits, SetAccountCredits
<1>3. ASSUME NEW u \in Users, NEW paused \in BOOLEAN, SetAccountPaused(u, paused)
      PROVE  BalancesStay
  <2> DEFINE old == rows[IndexOf(u)]
             r   == [old EXCEPT !.paused = paused]
  <2>1. Has(u) /\ rows' = [rows EXCEPT ![IndexOf(u)].paused = paused]
    BY <1>3 DEF SetAccountPaused
  <2>2. IndexOf(u) \in DOMAIN rows /\ old.id = u /\ old \in Row
    BY <2>1, IndexFindsTheRow DEF TypeOK
  <2>3. rows' = [rows EXCEPT ![IndexOf(u)] = r]
    BY <2>1, <2>2
  <2>4. r \in Row
    BY <2>2 DEF Row
  <2>5. r.id = u /\ (rows[IndexOf(u)].credits # Unknown => r.credits # Unknown)
    BY <2>2 DEF Row
  <2> QED
    BY <2>1, <2>3, <2>4, <2>5, ReplaceKeepsBalances
<1>4. ASSUME NEW u \in Users, DeleteAccount(u) PROVE BalancesStay
  <2>1. \A j \in DOMAIN rows' : \E m \in DOMAIN rows : rows'[j] = rows[m]
    BY <1>4, RemoveRow DEF DeleteAccount
  <2> QED
    BY <2>1 DEF OneRowPerUser
<1>5. ASSUME NEW a \in Adders, Whoami(a) \/ BillingCredits(a) \/ SaveFails(a)
      PROVE  rows' = rows
  BY <1>5 DEF Whoami, BillingCredits, SaveFails
<1>6. ASSUME NEW u \in Users, Spend(u) PROVE rows' = rows
  BY <1>6 DEF Spend
<1>7. CASE BeginCycle \/ NextRow \/ AskBilling
  BY <1>1, <1>7 DEF BeginCycle, NextRow, AskBilling
<1> QED
  BY <1>1, <1>2, <1>3, <1>4, <1>5, <1>6, <1>7, SaveAccountKeepsBalance DEF Next, Poller, vars

\* A known balance stays known for as long as its row lives, whatever the
\* billing endpoint does not answer (oauth.go:229-240).
THEOREM BalanceStaysKnown == Spec => BalanceIsNotForgotten
<1> DEFINE Found == \A u \in Users : Has(u) =>
             IndexOf(u) \in DOMAIN rows /\ rows[IndexOf(u)].id = u
           Stays == \A u \in Users :
             (Has(u) /\ Has(u)' /\ rows[IndexOf(u)].credits # Unknown)
               => (rows[IndexOf(u)].credits # Unknown)'
<1>1. RowsInv => Found
  BY IndexFindsTheRow DEF RowsInv
<1>2. RowsInv /\ Found /\ Found' /\ [Next]_vars => [Stays]_vars
  BY NextKeepsBalances DEF BalancesStay
<1> QED
  BY InitRows, NextRowsInv, <1>1, <1>2, PTL DEF Spec, BalanceIsNotForgotten
-----------------------------------------------------------------------------
(* The pages.                                                              *)

\* A page's channel is in the map exactly while its ServeSSE runs, and closed
\* once that has ended (events.go:37-51).
ChannelFollowsPage ==
  /\ sse \in [Pages -> {"none", "open", "ended"}]
  /\ subscribers \subseteq Pages /\ closed \subseteq Pages
  /\ \A p \in Pages : p \in subscribers => sse[p] = "open"
  /\ \A p \in Pages : p \in closed => sse[p] = "ended"

\* Whom a Broadcast has yet to serve is subscribed: nobody leaves while it
\* holds the read lock (events.go:55-65).
TargetsAreSubscribed ==
  /\ at \in [Changers -> {"idle", "committed", "sending", "done"}]
  /\ left \in [Changers -> SUBSET Pages]
  /\ \A c \in Changers : at[c] = "sending" => left[c] \subseteq subscribers

LockInv == ChannelFollowsPage /\ TargetsAreSubscribed /\ NeverSendsOnClosed

LEMMA InitLock == DashboardInit => LockInv
  BY DEF DashboardInit, LockInv, ChannelFollowsPage, TargetsAreSubscribed,
         NeverSendsOnClosed

\* A handler changes neither the map nor a page; what it sends goes to a page
\* that is subscribed, hence not to a closed channel.
LEMMA HandlerKeepsLock ==
  ASSUME LockInv, NEW c \in Changers, Commit(c) \/ Broadcast(c)
  PROVE  LockInv'
<1> USE DEF LockInv, ChannelFollowsPage, TargetsAreSubscribed, NeverSendsOnClosed
<1>1. CASE Commit(c)
  BY <1>1 DEF Commit
<1>2. CASE NothingToShow(c)
  BY <1>2 DEF NothingToShow
<1>3. CASE BeginBroadcast(c)
  BY <1>3 DEF BeginBroadcast
<1>4. ASSUME NEW p \in Pages, SendTo(c, p) PROVE LockInv'
  <2>1. p \notin closed
    <3>1. p \in subscribers
      BY <1>4 DEF SendTo
    <3> QED
      BY <3>1
  <2>2. ~panic'
    BY <1>4, <2>1 DEF SendTo
  <2>3. /\ at' = at /\ left' = [left EXCEPT ![c] = @ \ {p}]
        /\ UNCHANGED <<subscribers, closed, sse>>
    BY <1>4 DEF SendTo
  <2>4. TargetsAreSubscribed'
    BY <2>3
  <2> QED
    BY <2>2, <2>3, <2>4
<1>5. CASE EndBroadcast(c)
  BY <1>5 DEF EndBroadcast
<1> QED
  BY <1>1, <1>2, <1>3, <1>4, <1>5 DEF Broadcast

\* Subscribe and the deferred cancel hold the write lock, so no Broadcast is
\* under way when the map changes and a channel is closed.
LEMMA PageKeepsLock ==
  ASSUME LockInv, NEW p \in Pages, Subscribe(p) \/ Page(p) \/ Unsubscribe(p)
  PROVE  LockInv'
<1> USE DEF LockInv, ChannelFollowsPage, TargetsAreSubscribed, NeverSendsOnClosed, changes
<1>1. CASE Subscribe(p)
  BY <1>1 DEF Subscribe
<1>2. CASE Unsubscribe(p)
  <2>1. \A c \in Changers : at[c] # "sending"
    BY <1>2 DEF Unsubscribe, MayWrite, ReadLocked
  <2> QED
    BY <1>2, <2>1 DEF Unsubscribe
<1>3. CASE Forward(p)
  BY <1>3 DEF Forward
<1>4. CASE Answer(p) \/ AnswerLoad(p)
  BY <1>4 DEF Answer, AnswerLoad
<1>5. CASE Swap(p) \/ SwapLoad(p)
  BY <1>5 DEF Swap, SwapLoad
<1> QED
  BY <1>1, <1>2, <1>3, <1>4, <1>5 DEF Page

LEMMA StepKeepsLock == LockInv /\ [DashboardNext]_dashboardVars => LockInv'
<1> SUFFICES ASSUME LockInv, [DashboardNext]_dashboardVars PROVE LockInv'
  OBVIOUS
<1>1. CASE UNCHANGED dashboardVars
  BY <1>1 DEF dashboardVars, changes, LockInv, ChannelFollowsPage, TargetsAreSubscribed,
              NeverSendsOnClosed
<1> QED
  BY <1>1, HandlerKeepsLock, PageKeepsLock DEF DashboardNext

\* For any number of handlers, pages and events a channel holds: no
\* interleaving of broadcasts with arrivals and departures makes the send
\* that panics in Go (events.go:37-65).
THEOREM ClosedChannelsAreSafe == DashboardSpec => []NeverSendsOnClosed
<1>1. LockInv => NeverSendsOnClosed
  BY DEF LockInv
<1> QED
  BY InitLock, StepKeepsLock, <1>1, PTL DEF DashboardSpec
-----------------------------------------------------------------------------
(* News of the cards.                                                      *)

\* Who will still announce a change of the cards to p: not the handler whose
\* account is gone, it may have nothing to show.
WillTell(c, p) ==
  \/ at[c] = "committed" /\ (c \in CardChangers => ~deleted)
  \/ p \in left[c]

HasNews(p) ==
  \/ Brings(p, loading[p]) \/ Brings(p, request[p])
  \/ waiting[p] = "account-update"
  \/ \E i \in DOMAIN queue[p] : queue[p][i] = "account-update"
  \/ \E c \in Changers \ Recorders : WillTell(c, p)

Reply == [kind : Kinds \cup {"none"}, given : Nat]

NewsTypes ==
  /\ version \in [Kinds -> Nat] /\ queue \in [Pages -> Seq(Kinds)]
  /\ view \in [Pages -> Nat] /\ owed \in [Pages -> Nat]
  /\ excused \in [Pages -> Nat]
  /\ loading \in [Pages -> Reply] /\ request \in [Pages -> Reply]
  /\ waiting \in [Pages -> Kinds \cup {"none"}]

\* Nothing is owed to a page that never subscribed, and no more than there is.
OwedIsCommitted ==
  \A p \in Pages : owed[p] <= Cards /\ (sse[p] = "none" => owed[p] = 0)

Informed(p) ==
  p \in subscribers => view[p] >= owed[p] \/ excused[p] >= owed[p] \/ HasNews(p)

NewsInv ==
  /\ NewsTypes /\ OwedIsCommitted
  /\ \A p \in Pages : Informed(p)

\* What is in a channel stays there when something is added behind it.
LEMMA AppendKeepsNews ==
  ASSUME NEW q \in Seq(Kinds), NEW k \in Kinds
  PROVE  /\ Append(q, k) \in Seq(Kinds)
         /\ \A i \in DOMAIN q : i \in DOMAIN Append(q, k) /\ Append(q, k)[i] = q[i]
         /\ \E i \in DOMAIN Append(q, k) : Append(q, k)[i] = k
<1>1. /\ Append(q, k) \in Seq(Kinds) /\ Len(q) \in Nat
      /\ Len(Append(q, k)) = Len(q) + 1
      /\ \A i \in 1 .. Len(q) : Append(q, k)[i] = q[i]
      /\ Append(q, k)[Len(q) + 1] = k
  BY AppendProperties
<1>2. DOMAIN q = 1 .. Len(q) /\ DOMAIN Append(q, k) = 1 .. Len(q) + 1
  BY <1>1
<1> QED
  BY <1>1, <1>2

\* Taking the first event out leaves the others.
LEMMA TailKeepsNews ==
  ASSUME NEW q \in Seq(Kinds), q # <<>>
  PROVE  /\ Tail(q) \in Seq(Kinds) /\ Head(q) \in Kinds
         /\ \A i \in DOMAIN q :
              q[i] = Head(q) \/ \E j \in DOMAIN Tail(q) : Tail(q)[j] = q[i]
<1>1. /\ Tail(q) \in Seq(Kinds) /\ Head(q) \in Kinds /\ Head(q) = q[1]
      /\ Len(q) \in Nat /\ Len(Tail(q)) = Len(q) - 1
      /\ \A i \in 1 .. Len(Tail(q)) : Tail(q)[i] = q[i + 1]
  BY HeadTailProperties
<1>2. DOMAIN q = 1 .. Len(q) /\ DOMAIN Tail(q) = 1 .. Len(q) - 1
  BY <1>1
<1>3. ASSUME NEW i \in DOMAIN q, i # 1
      PROVE  i - 1 \in DOMAIN Tail(q) /\ Tail(q)[i - 1] = q[i]
  BY <1>1, <1>2, <1>3
<1> QED
  BY <1>1, <1>3

LEMMA InitNews == DashboardInit => NewsInv
<1> SUFFICES ASSUME DashboardInit PROVE NewsInv
  OBVIOUS
<1>1. NewsTypes
  BY DEF DashboardInit, NewsTypes, Kinds, NoRequest, Asked, Reply
<1> QED
  BY <1>1 DEF DashboardInit, NewsInv, OwedIsCommitted, Informed, Cards, Kinds

LEMMA CommitKeepsNews ==
  ASSUME LockInv, NewsInv, NEW c \in Changers, Commit(c)
  PROVE  NewsInv'
<1>1. /\ at[c] = "idle" /\ (c \in Recorders \/ ~deleted)
      /\ version' = [version EXCEPT ![Kind(c)] = @ + 1]
      /\ deleted' = (deleted \/ c \in Deleters)
      /\ at' = [at EXCEPT ![c] = "committed"]
      /\ owed' = [p \in Pages |-> IF p \in subscribers /\ c \notin Recorders
                                  THEN Cards' ELSE owed[p]]
      /\ UNCHANGED <<left, subscribers, queue, sse, browser, view, excused>>
  BY DEF Commit
<1>2. /\ Kind(c) \in Kinds /\ version' \in [Kinds -> Nat]
      /\ Cards \in Nat /\ Cards' \in Nat /\ Cards <= Cards'
  BY <1>1 DEF NewsInv, NewsTypes, Kind, Kinds, Cards
<1>3. NewsTypes'
  BY <1>1, <1>2 DEF NewsInv, NewsTypes, browser
<1>4. OwedIsCommitted'
  BY <1>1, <1>2 DEF NewsInv, NewsTypes, OwedIsCommitted, LockInv, ChannelFollowsPage
<1>5. ASSUME NEW p \in Pages PROVE Informed(p)'
  <2>1. CASE c \in Recorders
    <3>1. deleted' => deleted
      BY <1>1, <2>1, ChangersAssumption
    <3>2. owed'[p] = owed[p]
      BY <1>1, <2>1
    <3>3. \A d \in Changers \ Recorders : at'[d] = at[d]
      BY <1>1, <2>1 DEF LockInv, TargetsAreSubscribed
    <3> QED
      BY <1>1, <3>1, <3>2, <3>3 DEF NewsInv, Informed, HasNews, Brings, WillTell,
        browser
  <2>2. CASE c \notin Recorders
    <3>1. WillTell(c, p)'
      BY <1>1, <2>2, ChangersAssumption DEF WillTell, LockInv, TargetsAreSubscribed
    <3> QED
      BY <2>2, <3>1 DEF Informed, HasNews
  <2> QED
    BY <2>1, <2>2
<1> QED
  BY <1>3, <1>4, <1>5 DEF NewsInv

LEMMA SendToKeepsNews ==
  ASSUME NewsInv, LockInv, NEW c \in Changers, NEW p \in Pages, SendTo(c, p)
  PROVE  NewsInv'
<1>1. /\ p \in left[c] /\ left' = [left EXCEPT ![c] = @ \ {p}]
      /\ \/ queue' = [queue EXCEPT ![p] = Append(@, Kind(c))] /\ excused' = excused
         \/ /\ queue' = queue
            /\ IF Kind(c) = "account-update"
                    /\ \A i \in DOMAIN queue[p] : queue[p][i] # Kind(c)
               THEN excused' = [excused EXCEPT ![p] = owed[p]] ELSE excused' = excused
      /\ UNCHANGED <<version, deleted, at, subscribers, sse, browser, view, owed>>
  BY DEF SendTo, Excuse
<1>2. queue[p] \in Seq(Kinds) /\ Kind(c) \in Kinds
  BY DEF NewsInv, NewsTypes, Kind, Kinds
<1>3. NewsTypes' /\ OwedIsCommitted'
  <2>1. queue' \in [Pages -> Seq(Kinds)]
    <3>1. Append(queue[p], Kind(c)) \in Seq(Kinds)
      BY <1>2, AppendKeepsNews
    <3> QED
      BY <1>1, <3>1 DEF NewsInv, NewsTypes
  <2>2. excused' \in [Pages -> Nat]
    BY <1>1 DEF NewsInv, NewsTypes
  <2> QED
    BY <1>1, <2>1, <2>2 DEF NewsInv, NewsTypes, OwedIsCommitted, Cards, browser
<1>4. ASSUME NEW q \in Pages PROVE Informed(q)'
  <2>1. CASE q # p
    <3>1. /\ queue'[q] = queue[q] /\ excused'[q] = excused[q]
          /\ \A d \in Changers : q \in left[d] => q \in left'[d]
      BY <1>1, <2>1 DEF NewsInv, NewsTypes, LockInv, TargetsAreSubscribed
    <3> QED
      BY <1>1, <3>1 DEF NewsInv, Informed, HasNews, Brings, WillTell, browser
  <2>2. CASE q = p /\ c \in Recorders
    <3>1. excused' = excused
      BY <1>1, <2>2 DEF Kind
    <3>2. \A i \in DOMAIN queue[q] :
            i \in DOMAIN queue'[q] /\ queue'[q][i] = queue[q][i]
      <4>1. queue'[p] = queue[p] \/ queue'[p] = Append(queue[p], Kind(c))
        BY <1>1 DEF NewsInv, NewsTypes
      <4>2. \A i \in DOMAIN queue[p] : /\ i \in DOMAIN Append(queue[p], Kind(c))
                                       /\ Append(queue[p], Kind(c))[i] = queue[p][i]
        BY <1>2, AppendKeepsNews
      <4> QED
        BY <2>2, <4>1, <4>2
    <3>3. \A d \in Changers \ Recorders : left'[d] = left[d]
      BY <1>1, <2>2 DEF LockInv, TargetsAreSubscribed
    <3> QED
      BY <1>1, <3>1, <3>2, <3>3 DEF NewsInv, Informed, HasNews, Brings, WillTell,
        browser
  <2>3. CASE q = p /\ c \notin Recorders
    <3>1. Kind(c) = "account-update"
      BY <2>3 DEF Kind
    <3>2. \/ excused'[p] = owed[p] /\ owed'[p] = owed[p] /\ owed[p] \in Nat
          \/ \E i \in DOMAIN queue'[p] : queue'[p][i] = "account-update"
      <4>1. CASE queue' = [queue EXCEPT ![p] = Append(@, Kind(c))]
        <5>1. queue'[p] = Append(queue[p], Kind(c))
          BY <4>1 DEF NewsInv, NewsTypes
        <5>2. \E i \in DOMAIN Append(queue[p], Kind(c)) :
                Append(queue[p], Kind(c))[i] = Kind(c)
          BY <1>2, AppendKeepsNews
        <5> QED
          BY <3>1, <5>1, <5>2
      <4>2. CASE /\ queue' = queue
                 /\ IF Kind(c) = "account-update"
                         /\ \A i \in DOMAIN queue[p] : queue[p][i] # Kind(c)
                    THEN excused' = [excused EXCEPT ![p] = owed[p]]
                    ELSE excused' = excused
        BY <1>1, <3>1, <4>2 DEF NewsInv, NewsTypes
      <4> QED
        BY <1>1, <4>1, <4>2
    <3> QED
      BY <2>3, <3>2 DEF Informed, HasNews
  <2> QED
    BY <2>1, <2>2, <2>3
<1> QED
  BY <1>3, <1>4 DEF NewsInv

LEMMA HandlerKeepsNews ==
  ASSUME NewsInv, LockInv, NEW c \in Changers, Commit(c) \/ Broadcast(c)
  PROVE  NewsInv'
<1>1. CASE Commit(c)
  BY <1>1, CommitKeepsNews
<1>2. CASE NothingToShow(c)
  <2>1. \A d \in Changers : \A p \in Pages : WillTell(d, p) => WillTell(d, p)'
    BY <1>2 DEF NothingToShow, WillTell, LockInv, TargetsAreSubscribed
  <2> QED
    BY <1>2, <2>1 DEF NothingToShow, NewsInv, NewsTypes, OwedIsCommitted, Cards,
      Informed, HasNews, Brings, browser
<1>3. CASE BeginBroadcast(c)
  <2>1. \A d \in Changers : \A p \in subscribers : WillTell(d, p) => WillTell(d, p)'
    BY <1>3 DEF BeginBroadcast, WillTell, LockInv, TargetsAreSubscribed,
      ChannelFollowsPage
  <2> QED
    BY <1>3, <2>1 DEF BeginBroadcast, NewsInv, NewsTypes, OwedIsCommitted, Cards,
      Informed, HasNews, Brings, browser
<1>4. ASSUME NEW p \in Pages, SendTo(c, p) PROVE NewsInv'
  BY <1>4, SendToKeepsNews
<1>5. CASE EndBroadcast(c)
  <2>1. \A d \in Changers : \A p \in Pages : WillTell(d, p) => WillTell(d, p)'
    BY <1>5 DEF EndBroadcast, WillTell, LockInv, TargetsAreSubscribed
  <2> QED
    BY <1>5, <2>1 DEF EndBroadcast, NewsInv, NewsTypes, OwedIsCommitted, Cards,
      Informed, HasNews, Brings, browser
<1> QED
  BY <1>1, <1>2, <1>3, <1>4, <1>5 DEF Broadcast

\* What concerns the other pages stays as it is.
LEMMA PageConcernsItself ==
  ASSUME NewsInv, NewsTypes', NEW p \in Pages, Informed(p)',
         UNCHANGED <<changes, subscribers, sse, owed>>,
         \A q \in Pages \ {p} :
           /\ queue'[q] = queue[q] /\ view'[q] = view[q] /\ excused'[q] = excused[q]
           /\ loading'[q] = loading[q] /\ request'[q] = request[q]
           /\ waiting'[q] = waiting[q]
  PROVE  NewsInv'
<1>1. OwedIsCommitted'
  BY DEF NewsInv, OwedIsCommitted, Cards, changes
<1>2. \A q \in Pages \ {p} : Informed(q)'
  BY DEF NewsInv, Informed, HasNews, Brings, WillTell, changes
<1> QED
  BY <1>1, <1>2 DEF NewsInv

\* An event taken from the channel becomes a fetch or waits its turn; a fetch
\* of the cards is displaced only by one that is excused.
LEMMA ForwardKeepsNews ==
  ASSUME NewsInv, NEW p \in Pages, Forward(p)
  PROVE  NewsInv'
<1> DEFINE kind == Head(queue[p])
<1>1. /\ queue[p] # <<>> /\ queue[p] \in Seq(Kinds)
      /\ queue' = [queue EXCEPT ![p] = Tail(@)]
      /\ Hear(p, kind)
      /\ UNCHANGED <<changes, subscribers, sse, loading, view, owed>>
  BY DEF Forward, NewsInv, NewsTypes
<1>2. /\ kind \in Kinds /\ queue' \in [Pages -> Seq(Kinds)]
      /\ queue'[p] = Tail(queue[p])
  BY <1>1, TailKeepsNews DEF NewsInv, NewsTypes
<1>3. /\ request' \in [Pages -> Reply] /\ waiting' \in [Pages -> Kinds \cup {"none"}]
      /\ excused' \in [Pages -> Nat]
      /\ \A q \in Pages \ {p} : /\ request'[q] = request[q] /\ waiting'[q] = waiting[q]
                                /\ excused'[q] = excused[q]
  <2>1. Asked(kind) \in Reply
    BY <1>2 DEF Asked, Reply
  <2>2. owed[p] \in Nat
    BY DEF NewsInv, NewsTypes
  <2>3. CASE request[p] = NoRequest
    BY <1>1, <2>1, <2>3 DEF Hear, NewsInv, NewsTypes
  <2>4. CASE request[p] # NoRequest
    BY <1>1, <1>2, <2>2, <2>4 DEF Hear, Queue, Excuse, NewsInv, NewsTypes
  <2> QED
    BY <2>3, <2>4
<1>4. NewsTypes'
  BY <1>1, <1>2, <1>3 DEF NewsInv, NewsTypes, changes
<1>5. kind = "account-update" =>
        waiting'[p] = "account-update" \/ Brings(p, request[p])'
  <2>1. CASE request[p] = NoRequest
    <3>1. request'[p] = Asked(kind)
      BY <1>1, <2>1 DEF Hear, NewsInv, NewsTypes
    <3> QED
      BY <3>1 DEF Asked, Brings
  <2>2. CASE request[p] # NoRequest
    BY <1>1, <2>2 DEF Hear, Queue, NewsInv, NewsTypes
  <2> QED
    BY <2>1, <2>2
<1>6. (\E i \in DOMAIN queue[p] : queue[p][i] = "account-update") =>
        \/ kind = "account-update"
        \/ \E i \in DOMAIN queue'[p] : queue'[p][i] = "account-update"
  BY <1>1, <1>2, TailKeepsNews
<1>7. Brings(p, request[p]) => Brings(p, request[p])'
  <2>1. CASE request[p] = NoRequest
    BY <2>1 DEF NoRequest, Asked, Brings
  <2>2. CASE request[p] # NoRequest
    BY <1>1, <2>2 DEF Hear, Brings
  <2> QED
    BY <2>1, <2>2
<1>8. waiting[p] = "account-update" =>
        waiting'[p] = "account-update" \/ excused'[p] = owed[p]
  <2>1. CASE request[p] = NoRequest
    BY <1>1, <2>1 DEF Hear
  <2>2. CASE request[p] # NoRequest
    BY <1>1, <2>2 DEF Hear, Queue, Excuse, NewsInv, NewsTypes
  <2> QED
    BY <2>1, <2>2
<1>9. excused'[p] = excused[p] \/ excused'[p] = owed[p]
  BY <1>1 DEF Hear, Queue, Excuse, NewsInv, NewsTypes
<1>10. owed[p] \in Nat /\ owed'[p] = owed[p]
  BY <1>1 DEF NewsInv, NewsTypes
<1>11. HasNews(p) => HasNews(p)' \/ excused'[p] = owed[p]
  BY <1>1, <1>5, <1>6, <1>7, <1>8 DEF HasNews, Brings, WillTell, changes
<1>12. p \in subscribers =>
         view[p] >= owed[p] \/ excused[p] >= owed[p] \/ HasNews(p)
  BY DEF NewsInv, Informed
<1>13. Informed(p)'
  BY <1>1, <1>9, <1>10, <1>11, <1>12 DEF Informed
<1>14. \A q \in Pages \ {p} : queue'[q] = queue[q]
  BY <1>1 DEF NewsInv, NewsTypes
<1> QED
  BY <1>1, <1>3, <1>4, <1>13, <1>14, PageConcernsItself

\* An answer is as new as anything that is owed.
LEMMA AnswerKeepsNews ==
  ASSUME NewsInv, NEW p \in Pages, Answer(p) \/ AnswerLoad(p)
  PROVE  NewsInv'
<1>1. ASSUME NEW r \in Reply, r.kind \in Kinds
      PROVE  Given(r) \in Reply /\ (r.kind = "account-update" => Brings(p, Given(r)))
  <2>1. version[r.kind] \in Nat
    BY <1>1 DEF NewsInv, NewsTypes
  <2>2. Given(r) = [kind |-> r.kind, given |-> version[r.kind]]
    BY DEF Given, Reply
  <2> QED
    BY <2>1, <2>2 DEF Reply, Brings, NewsInv, OwedIsCommitted, Cards
<1>2. \A r \in Reply : r # NoRequest /\ r.given = 0 => r.kind \in Kinds
  BY DEF Reply, NoRequest, Asked
<1>3. CASE Answer(p)
  <2>1. /\ request[p] \in Reply /\ request[p].kind \in Kinds
        /\ request' = [request EXCEPT ![p] = Given(request[p])]
        /\ UNCHANGED <<changes, subscribers, queue, sse, loading, waiting, view, owed,
                       excused>>
    BY <1>2, <1>3 DEF Answer, NewsInv, NewsTypes
  <2>2. /\ request' \in [Pages -> Reply] /\ request'[p] = Given(request[p])
        /\ \A q \in Pages \ {p} : request'[q] = request[q]
    BY <1>1, <2>1 DEF NewsInv, NewsTypes
  <2>3. NewsTypes'
    BY <2>1, <2>2 DEF NewsInv, NewsTypes, changes
  <2>4. Brings(p, request[p]) => Brings(p, request[p])'
    BY <1>1, <2>1, <2>2 DEF Brings
  <2>5. HasNews(p) => HasNews(p)'
    BY <2>1, <2>4 DEF HasNews, Brings, WillTell, changes
  <2>6. Informed(p)'
    BY <2>1, <2>5 DEF NewsInv, Informed
  <2> QED
    BY <2>1, <2>2, <2>3, <2>6, PageConcernsItself
<1>4. CASE AnswerLoad(p)
  <2>1. /\ loading[p] \in Reply /\ loading[p].kind \in Kinds
        /\ loading' = [loading EXCEPT ![p] = Given(loading[p])]
        /\ UNCHANGED <<changes, subscribers, queue, sse, request, waiting, view, owed,
                       excused>>
    BY <1>2, <1>4 DEF AnswerLoad, NewsInv, NewsTypes
  <2>2. /\ loading' \in [Pages -> Reply] /\ loading'[p] = Given(loading[p])
        /\ \A q \in Pages \ {p} : loading'[q] = loading[q]
    BY <1>1, <2>1 DEF NewsInv, NewsTypes
  <2>3. NewsTypes'
    BY <2>1, <2>2 DEF NewsInv, NewsTypes, changes
  <2>4. Brings(p, loading[p]) => Brings(p, loading[p])'
    BY <1>1, <2>1, <2>2 DEF Brings
  <2>5. HasNews(p) => HasNews(p)'
    BY <2>1, <2>4 DEF HasNews, Brings, WillTell, changes
  <2>6. Informed(p)'
    BY <2>1, <2>5 DEF NewsInv, Informed
  <2> QED
    BY <2>1, <2>2, <2>3, <2>6, PageConcernsItself
<1> QED
  BY <1>3, <1>4

\* The cards that are swapped in are no worse than those shown, or that is
\* excused; and the fetch that waited is under way.
LEMMA SwapKeepsNews ==
  ASSUME NewsInv, NEW p \in Pages, Swap(p) \/ SwapLoad(p)
  PROVE  NewsInv'
<1>1. /\ view[p] \in Nat /\ owed[p] \in Nat /\ excused[p] \in Nat
      /\ request[p] \in Reply /\ loading[p] \in Reply
      /\ waiting[p] \in Kinds \cup {"none"}
  BY DEF NewsInv, NewsTypes
<1>2. ASSUME NEW n \in Nat, Show(p, n), owed' = owed
      PROVE  /\ view' \in [Pages -> Nat] /\ excused' \in [Pages -> Nat]
             /\ \A q \in Pages \ {p} : view'[q] = view[q] /\ excused'[q] = excused[q]
             /\ view'[p] = n
             /\ view[p] >= owed[p] \/ excused[p] >= owed[p] =>
                  view'[p] >= owed[p] \/ excused'[p] >= owed[p]
  <2>1. /\ view' = [view EXCEPT ![p] = n]
        /\ view \in [Pages -> Nat] /\ excused \in [Pages -> Nat]
    BY <1>2 DEF Show, NewsInv, NewsTypes
  <2>2. CASE n < view[p]
    <3>1. excused' = [excused EXCEPT ![p] = owed[p]]
      BY <1>2, <2>2 DEF Show, Excuse
    <3> QED
      BY <1>1, <2>1, <3>1
  <2>3. CASE ~(n < view[p])
    <3>1. excused' = excused
      BY <1>2, <2>3 DEF Show
    <3> QED
      BY <1>1, <2>1, <2>3, <3>1
  <2> QED
    BY <2>2, <2>3
<1>3. CASE Swap(p)
  <2>1. /\ request[p].given \in Nat /\ request[p].given > 0
        /\ request' = [request EXCEPT ![p] = Asked(waiting[p])]
        /\ waiting' = [waiting EXCEPT ![p] = "none"]
        /\ UNCHANGED <<changes, subscribers, queue, sse, loading, owed>>
    BY <1>1, <1>3 DEF Swap, Reply
  <2>2. \/ request[p].kind = "account-update" /\ Show(p, request[p].given)
        \/ request[p].kind # "account-update" /\ UNCHANGED <<view, excused>>
    BY <1>3 DEF Swap
  <2>3. /\ view' \in [Pages -> Nat] /\ excused' \in [Pages -> Nat]
        /\ \A q \in Pages \ {p} : view'[q] = view[q] /\ excused'[q] = excused[q]
        /\ view[p] >= owed[p] \/ excused[p] >= owed[p] =>
             view'[p] >= owed[p] \/ excused'[p] >= owed[p]
        /\ Brings(p, request[p]) => view'[p] >= owed[p]
    BY <1>2, <2>1, <2>2 DEF Brings, NewsInv, NewsTypes
  <2>4. /\ request'[p] = Asked(waiting[p]) /\ request' \in [Pages -> Reply]
        /\ waiting' \in [Pages -> Kinds \cup {"none"}]
        /\ \A q \in Pages \ {p} : request'[q] = request[q] /\ waiting'[q] = waiting[q]
    <3>1. Asked(waiting[p]) \in Reply
      BY <1>1 DEF Asked, Reply
    <3> QED
      BY <2>1, <3>1 DEF NewsInv, NewsTypes
  <2>5. NewsTypes'
    BY <2>1, <2>3, <2>4 DEF NewsInv, NewsTypes, changes
  <2>6. waiting[p] = "account-update" => Brings(p, request[p])'
    BY <2>4 DEF Asked, Brings
  <2>7. HasNews(p) => HasNews(p)' \/ view'[p] >= owed[p]
    BY <2>1, <2>3, <2>6 DEF HasNews, Brings, WillTell, changes
  <2>8. Informed(p)'
    BY <2>1, <2>3, <2>7 DEF NewsInv, Informed
  <2> QED
    BY <2>1, <2>3, <2>4, <2>5, <2>8, PageConcernsItself
<1>4. CASE SwapLoad(p)
  <2>1. /\ loading[p].given \in Nat /\ loading[p].given > 0
        /\ loading' = [loading EXCEPT ![p] = NoRequest]
        /\ Show(p, loading[p].given)
        /\ UNCHANGED <<changes, subscribers, queue, sse, request, waiting, owed>>
    BY <1>1, <1>4 DEF SwapLoad, Reply
  <2>2. /\ view' \in [Pages -> Nat] /\ excused' \in [Pages -> Nat]
        /\ \A q \in Pages \ {p} : view'[q] = view[q] /\ excused'[q] = excused[q]
        /\ view[p] >= owed[p] \/ excused[p] >= owed[p] =>
             view'[p] >= owed[p] \/ excused'[p] >= owed[p]
        /\ Brings(p, loading[p]) => view'[p] >= owed[p]
    BY <1>2, <2>1 DEF Brings
  <2>3. /\ loading' \in [Pages -> Reply]
        /\ \A q \in Pages \ {p} : loading'[q] = loading[q]
    <3>1. NoRequest \in Reply
      BY DEF NoRequest, Asked, Reply
    <3> QED
      BY <2>1, <3>1 DEF NewsInv, NewsTypes
  <2>4. NewsTypes'
    BY <2>1, <2>2, <2>3 DEF NewsInv, NewsTypes, changes
  <2>5. HasNews(p) => HasNews(p)' \/ view'[p] >= owed[p]
    BY <2>1, <2>2 DEF HasNews, Brings, WillTell, changes
  <2>6. Informed(p)'
    BY <2>1, <2>2, <2>5 DEF NewsInv, Informed
  <2> QED
    BY <2>1, <2>2, <2>3, <2>4, <2>6, PageConcernsItself
<1> QED
  BY <1>3, <1>4

LEMMA PageKeepsNews ==
  ASSUME NewsInv, LockInv, NEW p \in Pages, Subscribe(p) \/ Page(p) \/ Unsubscribe(p)
  PROVE  NewsInv'
<1> USE DEF changes, browser
<1>1. CASE Subscribe(p)
  <2>1. owed[p] = 0 /\ view[p] \in Nat
    BY <1>1 DEF Subscribe, NewsInv, NewsTypes, OwedIsCommitted
  <2>2. NewsTypes' /\ OwedIsCommitted'
    BY <1>1 DEF Subscribe, NewsInv, NewsTypes, OwedIsCommitted, Cards, LockInv,
      ChannelFollowsPage
  <2>3. \A q \in Pages : Informed(q)'
    BY <1>1, <2>1 DEF Subscribe, NewsInv, Informed, HasNews, Brings, WillTell
  <2> QED
    BY <2>2, <2>3 DEF NewsInv
<1>2. CASE Unsubscribe(p)
  BY <1>2 DEF Unsubscribe, NewsInv, NewsTypes, OwedIsCommitted, Cards, Informed,
    HasNews, Brings, WillTell, LockInv, ChannelFollowsPage
<1> QED
  BY <1>1, <1>2, ForwardKeepsNews, AnswerKeepsNews, SwapKeepsNews DEF Page

\* For any number of handlers, pages and events a channel holds: a subscriber
\* whose cards are out of date is about to get new ones, or since the change
\* lost news of it to a full channel, to a fetch of the rows or to an older
\* answer (events.go:53-65, dashboard.go:154-218, dashboard.html:260-271).
THEOREM NewsArrives == DashboardSpec => []NewsIsOnItsWay
<1>1. LockInv /\ NewsInv /\ [DashboardNext]_dashboardVars => LockInv' /\ NewsInv'
  <2> SUFFICES ASSUME LockInv, NewsInv, [DashboardNext]_dashboardVars
               PROVE  LockInv' /\ NewsInv'
    OBVIOUS
  <2>1. CASE UNCHANGED dashboardVars
    <3>1. LockInv'
      BY <2>1, StepKeepsLock
    <3>2. NewsInv'
      BY <2>1 DEF dashboardVars, changes, browser, NewsInv, NewsTypes, OwedIsCommitted,
        Cards, Informed, HasNews, Brings, WillTell
    <3> QED
      BY <3>1, <3>2
  <2>2. CASE DashboardNext
    BY <2>2, StepKeepsLock, HandlerKeepsNews, PageKeepsNews DEF DashboardNext
  <2> QED
    BY <2>1, <2>2
<1>2. LockInv /\ NewsInv => NewsIsOnItsWay
  <2> SUFFICES ASSUME LockInv, NewsInv, NEW p \in subscribers,
                      view[p] < owed[p], excused[p] < owed[p]
               PROVE  \/ Brings(p, loading[p]) \/ Brings(p, request[p])
                      \/ waiting[p] = "account-update"
                      \/ \E i \in DOMAIN queue[p] : queue[p][i] = "account-update"
                      \/ \E c \in Changers \ Recorders :
                           at[c] = "committed" \/ p \in left[c]
    BY DEF NewsIsOnItsWay
  <2>1. /\ p \in Pages /\ Informed(p) /\ view[p] \in Nat /\ owed[p] \in Nat
        /\ excused[p] \in Nat
    BY DEF LockInv, ChannelFollowsPage, NewsInv, NewsTypes
  <2>2. HasNews(p)
    <3>1. ~(view[p] >= owed[p]) /\ ~(excused[p] >= owed[p])
      BY <2>1
    <3> QED
      BY <2>1, <3>1 DEF Informed
  <2> QED
    BY <2>2 DEF HasNews, WillTell
<1> QED
  BY InitLock, InitNews, <1>1, <1>2, PTL DEF DashboardSpec
=============================================================================
