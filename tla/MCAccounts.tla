----------------------------- MODULE MCAccounts -----------------------------
(* Instances of Accounts for TLC.                                          *)
EXTENDS Accounts

\* Two calls bring keys of the same user, as when the callback and a pasted
\* key race; another user's row may be there already.
SameUserTwice == [a \in Adders |-> "u1"]
=============================================================================
