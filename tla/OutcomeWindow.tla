--------------------------- MODULE OutcomeWindow ----------------------------
(***************************************************************************)
(* What the rolling statistics promise (internal/pool/health.go:22-25): a  *)
(* ledger that never forgets an outcome, of which a reader sees the last   *)
(* Width buckets up to the newest one anybody looked at.  Nothing is       *)
(* shifted or zeroed here: the window is a view of the ledger.             *)
(***************************************************************************)
EXTENDS Integers

CONSTANTS
  Width,      (* how many buckets the window shows                         *)
  Buckets     (* the bucket numbers outcomes may be filed under            *)

VARIABLES
  ledger,     (* bucket number -> everything ever filed under it           *)
  frontier,   (* the newest bucket looked at; -1 before the first          *)
  window      (* what a reader sees: slot i is i buckets before frontier   *)

vars == <<ledger, frontier, window>>

Nothing == [reqs |-> 0, errs |-> 0]

View(led, at) ==
  [i \in 0 .. (Width - 1) |->
     IF at - i \in Buckets THEN led[at - i] ELSE Nothing]

Init ==
  /\ ledger = [b \in Buckets |-> Nothing]
  /\ frontier = -1
  /\ window = View(ledger, frontier)

Advance(b) == frontier' = IF b > frontier THEN b ELSE frontier

Look(b) ==
  /\ Advance(b)
  /\ ledger' = ledger
  /\ window' = View(ledger', frontier')

File(b, failed) ==
  /\ Advance(b)
  /\ ledger' = [ledger EXCEPT ![frontier'].reqs = @ + 1,
                              ![frontier'].errs = @ + failed]
  /\ window' = View(ledger', frontier')

Next == \E b \in Buckets : Look(b) \/ \E failed \in {0, 1} : File(b, failed)

Spec == Init /\ [][Next]_vars
=============================================================================
