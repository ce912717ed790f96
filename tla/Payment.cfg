\* Four requests: a deposit and its callbacks, or withdrawals and settlements.
SPECIFICATION MCSpec
CONSTANTS
  u1 = u1
  o1 = o1
  x1 = x1
  x2 = x2
  NoTx = NoTx
  NoWallet = NoWallet
  User = {u1}
  Session = {p1, p2, p3, p4}
  Order = {o1}
  Payout = {x1, x2}
  Owner <- MCOwner
  Amount <- MCAmount
  Fee = 1
  Opening <- MCOpening
SYMMETRY Symmetry
INVARIANTS
  BooksHold
  PendingIsBacked
