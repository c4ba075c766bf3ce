SPECIFICATION Spec
CONSTANTS
  Clients = {c1, c2}
  InitFiles <- MCInitFiles
  MaxCrashes = 2
  MaxFaults = 2
INVARIANTS
  TypeOK
  ReadersSeeTheFile
  NeverTorn
  NoLitter
  RetiredTokenRejected
PROPERTIES
  ImplementsRegister
CHECK_DEADLOCK FALSE
