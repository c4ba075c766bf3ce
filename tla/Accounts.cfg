SPECIFICATION FairSpec
CONSTANTS
  Users = {"u1", "u2"}
  Known = {"u2"}
  Adders = {"a1", "a2"}
  Owner <- SameUserTwice
  Balance0 = 2
  MaxEdits = 2
INVARIANTS
  RowsAreLastWrites
  NoInventedBalance
PROPERTIES
  BalanceIsNotForgotten
  CreditsConverge
