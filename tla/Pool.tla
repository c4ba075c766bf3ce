-------------------------------- MODULE Pool --------------------------------
(***************************************************************************)
(* internal/pool/pool.go: which account serves a request.  The health      *)
(* filter over a snapshot of the store, then affinity by hash within the   *)
(* survivors in order of their IDs.                                        *)
(*                                                                         *)
(* accounts maps an ID to its row or to NoAccount, stats maps an ID to its *)
(* tracker.  An ID missing from the code's stats map is a tracker that was *)
(* never rolled.                                                           *)
(***************************************************************************)
EXTENDS RollingStats, FiniteSets

CONSTANTS
  AccountIDs,     (* user IDs, as numbers so that they can be sorted       *)
  MinCredits,     (* Settings.MinCreditsUSD; 0 switches the floor off      *)
  MaxErrorRate    (* Settings.MaxErrorRate5min as [num, den]               *)

ASSUME AccountIDsAssumption == AccountIDs \subseteq Nat /\ IsFiniteSet(AccountIDs)
ASSUME MinCreditsAssumption == MinCredits \in Nat
ASSUME MaxErrorRateAssumption == MaxErrorRate \in [num : Nat, den : Nat \ {0}]

NoAccount == [key |-> -1]
NoKey     == 0     \* an empty APIKey
Unknown   == -1    \* LastKnownCreditsAt is zero: no balance was ever seen

Row(keys, balances) ==
  [key : keys, paused : BOOLEAN, credits : balances \cup {Unknown}]

Funded(acc) ==
  ~ (MinCredits > 0 /\ acc.credits # Unknown /\ acc.credits < MinCredits)

\* The accounts whose error rate Pick looks at.
Consulted(accounts, exclude) ==
  {a \in AccountIDs \ exclude :
     /\ accounts[a] # NoAccount
     /\ ~accounts[a].paused /\ accounts[a].key # NoKey
     /\ Funded(accounts[a])}

\* Looking at an error rate rolls the tracker.
Rolled(stats, ids, now) ==
  [a \in AccountIDs |-> IF a \in ids /\ stats[a].head # NoHead
                        THEN rollLocked(stats[a], now) ELSE stats[a]]

OverThreshold(tracker) ==
  MaxErrorRate.num > 0 /\ RateAbove(Totals(tracker), MaxErrorRate)

Candidates(accounts, stats, now, exclude) ==
  LET asked == Consulted(accounts, exclude)
  IN  {a \in asked : ~OverThreshold(Rolled(stats, asked, now)[a])}

\* sort by ID, then hash % len: the candidate with that many before it.
Before(candidates, id) == {c \in candidates : c < id}

Choice(candidates, hash) ==
  CHOOSE id \in candidates :
    Cardinality(Before(candidates, id)) = hash % Cardinality(candidates)

Mark(stats, id, now, success) ==
  [stats EXCEPT ![id] = Record(@, now, success)]
=============================================================================
