\* Two concurrent requests of every kind, to their end.
SPECIFICATION LiveSpec
CONSTANTS
  a = a
  h = h
  n = n
  NoTx = NoTx
  NoWallet = NoWallet
  Uncached = Uncached
  User <- MCUser
  Session = {p1, p2}
  Opening <- MCOpening
  Plan <- MCPlan
INVARIANTS
  CheckStillHolds
  LedgerRowsMatchMovements
PROPERTIES
  ImplementsAtomicLedger
  RequestsSettle
