------------------------------ MODULE Accounts ------------------------------
(***************************************************************************)
(* Who writes the account rows: adding or refreshing an account            *)
(* (server/oauth.go addAccount), the credit poller (pool/sync.go), pause,  *)
(* resume and removal from the dashboard (store/traffic.go).               *)
(*                                                                         *)
(* Each write is one Store.Update, under the store's lock; what it writes  *)
(* may come from a call to Command Code made long before, and from a       *)
(* snapshot older still.                                                   *)
(***************************************************************************)
EXTENDS Integers, Sequences, SequencesExt

CONSTANTS
  Users,        (* Command Code users                                      *)
  Adders,       (* calls of addAccount, each with an apikey of its own     *)
  Owner,        (* adder -> the user whose key it was given                *)
  Known,        (* users one of whom may have a row in the state file      *)
  Balance0,     (* every user's balance at the start                       *)
  MaxEdits      (* bound: flips and removals                               *)

\* The key of a row that was there at the start.
StoredKey == "stored"

ASSUME OwnerAssumption == Owner \in [Adders -> Users] /\ StoredKey \notin Adders
ASSUME KnownAssumption == Known \subseteq Users
ASSUME BoundsAssumption == Balance0 \in Nat \ {0} /\ MaxEdits \in Nat

Unknown == -1   \* LastKnownCreditsAt is zero

VARIABLES
  rows,       (* State.Accounts                                            *)
  balance,    (* user -> what the billing endpoint says now                *)
  phase,      (* adder -> "idle", "billing", "saving", "done", "failed"    *)
  fetched,    (* adder -> the balance it was told, or Unknown              *)
  syncing,    (* "asleep", "cycle" or "saving"                             *)
  todo,       (* the rest of the poller's snapshot                         *)
  got,        (* the balance the poller was told                           *)
  edits,
  truth       (* ghost: user -> the key last saved and the last flip since *)
              (* it was added, or None                                     *)

vars == <<rows, balance, phase, fetched, syncing, todo, got, edits, truth>>

adders == <<phase, fetched>>
poller == <<syncing, todo, got>>

None == [key |-> "none"]

Init ==
  /\ rows \in {<<>>} \cup
       {<<[id |-> u, key |-> StoredKey, paused |-> FALSE, credits |-> c]>> :
          u \in Known, c \in {Unknown, Balance0}}
  /\ balance = [u \in Users |-> Balance0]
  /\ phase = [a \in Adders |-> "idle"]
  /\ fetched = [a \in Adders |-> Unknown]
  /\ syncing = "asleep" /\ todo = <<>> /\ got = Unknown
  /\ edits = 0
  /\ truth = [u \in Users |-> IF rows # <<>> /\ rows[1].id = u
                              THEN [key |-> StoredKey, paused |-> FALSE] ELSE None]
-----------------------------------------------------------------------------
\* The loops over st.Accounts stop at the first row with the ID.
IndexOf(u) == SelectInSeq(rows, LAMBDA row : row.id = u)

Has(u) == IndexOf(u) # 0
-----------------------------------------------------------------------------
(* addAccount.                                                             *)

Whoami(a) ==
  /\ phase[a] = "idle"
  /\ phase' \in {[phase EXCEPT ![a] = next] : next \in {"billing", "failed"}}
  /\ UNCHANGED <<rows, balance, fetched, poller, edits, truth>>

\* Without an answer the account is added all the same.
BillingCredits(a) ==
  /\ phase[a] = "billing"
  /\ \E answer \in {balance[Owner[a]], Unknown} :
       fetched' = [fetched EXCEPT ![a] = answer]
  /\ phase' = [phase EXCEPT ![a] = "saving"]
  /\ UNCHANGED <<rows, balance, poller, edits, truth>>

\* Mutant: no answer overwrites the balance.
Refreshed_WithAnything(row, key, credits) ==
  [row EXCEPT !.key = key, !.credits = credits]

Refreshed(row, key, credits) ==
  [row EXCEPT !.key = key, !.credits = IF credits = Unknown THEN @ ELSE credits]

Upsert(u, key, credits) ==
  IF Has(u) THEN [rows EXCEPT ![IndexOf(u)] = Refreshed(@, key, credits)]
  ELSE Append(rows, [id |-> u, key |-> key, paused |-> FALSE, credits |-> credits])

SaveAccount(a) ==
  LET u == Owner[a] IN
  /\ phase[a] = "saving"
  /\ rows' = Upsert(u, a, fetched[a])
  /\ truth' = [truth EXCEPT ![u] = IF @ = None THEN [key |-> a, paused |-> FALSE]
                                               ELSE [@ EXCEPT !.key = a]]
  /\ phase' = [phase EXCEPT ![a] = "done"]
  /\ UNCHANGED <<balance, fetched, poller, edits>>

SaveFails(a) ==
  /\ phase[a] = "saving"
  /\ phase' = [phase EXCEPT ![a] = "failed"]
  /\ UNCHANGED <<rows, balance, fetched, poller, edits, truth>>
-----------------------------------------------------------------------------
(* CreditSyncer.                                                           *)

BeginCycle ==
  /\ syncing = "asleep"
  /\ todo' = rows /\ syncing' = "cycle"
  /\ UNCHANGED <<rows, balance, adders, got, edits, truth>>

\* Mutant: a balance once known is not asked for again.
Polled_Once == ~Head(todo).paused /\ Head(todo).credits = Unknown

\* Rows are judged by the snapshot; every row has a key.
Polled == ~Head(todo).paused

\* The row was paused when the cycle began, the endpoint does not answer, or
\* nothing is left.
NextRow ==
  /\ syncing = "cycle"
  /\ todo' = IF todo = <<>> THEN <<>> ELSE Tail(todo)
  /\ syncing' = IF todo = <<>> THEN "asleep" ELSE "cycle"
  /\ UNCHANGED <<rows, balance, adders, got, edits, truth>>

AskBilling ==
  /\ syncing = "cycle" /\ todo # <<>> /\ Polled
  /\ got' = balance[Head(todo).id]
  /\ syncing' = "saving"
  /\ UNCHANGED <<rows, balance, adders, todo, edits, truth>>

\* Mutants: the whole row of the snapshot is written back; the balance goes
\* to whatever row comes first.
SetAccountCredits_WholeRow(u, credits) ==
  IF Has(u) THEN [rows EXCEPT ![IndexOf(u)] = [Head(todo) EXCEPT !.credits = credits]]
            ELSE rows
SetAccountCredits_FirstRow(u, credits) ==
  IF Has(u) THEN [rows EXCEPT ![1].credits = credits] ELSE rows

SetAccountCredits(u, credits) ==
  IF Has(u) THEN [rows EXCEPT ![IndexOf(u)].credits = credits] ELSE rows

\* The write; a failed one leaves the row alone and the cycle goes on.
SaveCredits ==
  /\ syncing = "saving"
  /\ rows' \in {SetAccountCredits(Head(todo).id, got), rows}
  /\ syncing' = "cycle" /\ todo' = Tail(todo)
  /\ UNCHANGED <<balance, adders, got, edits, truth>>
-----------------------------------------------------------------------------
(* The dashboard, and the users' spending.                                 *)

SetAccountPaused(u, paused) ==
  /\ edits < MaxEdits /\ edits' = edits + 1
  /\ Has(u)                              \* ErrAccountNotFound otherwise
  /\ rows' = [rows EXCEPT ![IndexOf(u)].paused = paused]
  /\ truth' = [truth EXCEPT ![u].paused = paused]
  /\ UNCHANGED <<balance, adders, poller>>

DeleteAccount(u) ==
  /\ edits < MaxEdits /\ edits' = edits + 1
  /\ Has(u)
  /\ rows' = RemoveAt(rows, IndexOf(u))
  /\ truth' = [truth EXCEPT ![u] = None]
  /\ UNCHANGED <<balance, adders, poller>>

Spend(u) ==
  /\ balance[u] > 1
  /\ balance' = [balance EXCEPT ![u] = @ - 1]
  /\ UNCHANGED <<rows, adders, poller, edits, truth>>

Poller == BeginCycle \/ NextRow \/ AskBilling \/ SaveCredits

Next ==
  \/ \E a \in Adders : Whoami(a) \/ BillingCredits(a) \/ SaveAccount(a) \/ SaveFails(a)
  \/ Poller
  \/ \E u \in Users : \/ \E paused \in BOOLEAN : SetAccountPaused(u, paused)
                      \/ DeleteAccount(u) \/ Spend(u)

Spec == Init /\ [][Next]_vars

\* The poller is never stopped, and the billing endpoint and the disk work
\* again and again for every account the poller comes to.
Answered(u) == AskBilling /\ Head(todo).id = u
Stored(u)   == SaveCredits /\ Head(todo).id = u
               /\ rows' = SetAccountCredits(u, got)

FairSpec ==
  /\ Spec /\ WF_vars(Poller)
  /\ \A u \in Users : SF_vars(Answered(u)) /\ SF_vars(Stored(u))
-----------------------------------------------------------------------------
Row == [id : Users, key : Adders \cup {StoredKey}, paused : BOOLEAN,
        credits : {Unknown} \cup 1 .. Balance0]

TypeOK ==
  /\ rows \in Seq(Row) /\ todo \in Seq(Row)
  /\ balance \in [Users -> 1 .. Balance0]
  /\ phase \in [Adders -> {"idle", "billing", "saving", "done", "failed"}]
  /\ fetched \in [Adders -> {Unknown} \cup 1 .. Balance0]
  /\ got \in {Unknown} \cup 1 .. Balance0
  /\ syncing \in {"asleep", "cycle", "saving"}
  /\ syncing = "saving" => todo # <<>>
  /\ edits \in 0 .. MaxEdits

\* There is one row per user, and it has what was written last, whoever was
\* in the middle of what: concurrent additions of one user make one row, a
\* refresh or the poller never undoes a pause or a new key, and the poller
\* never brings a removed account back (oauth.go:223-261, sync.go:46-66,
\* README.md:96).
RowsAreLastWrites ==
  /\ \A i, j \in DOMAIN rows : rows[i].id = rows[j].id => i = j
  /\ \A u \in Users :
       IF Has(u) THEN truth[u] = [key |-> rows[IndexOf(u)].key,
                                  paused |-> rows[IndexOf(u)].paused]
                 ELSE truth[u] = None

\* A balance once known is never forgotten while the row lives: a billing
\* endpoint that does not answer a refresh does not make the account unknown,
\* which would lift the credit floor for it (oauth.go:229-240, pool.go:71-82).
BalanceIsNotForgotten ==
  [][\A u \in Users :
       (Has(u) /\ Has(u)' /\ rows[IndexOf(u)].credits # Unknown)
         => (rows[IndexOf(u)].credits # Unknown)']_vars

\* What a row says is a balance the user has had since the row's write was
\* prepared: never more than at the start, never less than now, and none at
\* all is Unknown, not $0 (oauth.go:206-216, 252-257).
NoInventedBalance ==
  \A i \in DOMAIN rows :
    rows[i].credits # Unknown => rows[i].credits \in balance[rows[i].id] .. Balance0

\* A late answer may overwrite a later one, but not for good: once the
\* spending stops, the poller brings every unpaused row to the true balance
\* and keeps it there (sync.go:34-73).
CreditsConverge ==
  <>[](\A u \in Users :
         (Has(u) /\ ~rows[IndexOf(u)].paused)
            => rows[IndexOf(u)].credits = balance[u])
=============================================================================
