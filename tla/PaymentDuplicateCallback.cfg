\* Duplicate callbacks of one order.
SPECIFICATION Spec
CONSTANTS
  u1 = u1
  o1 = o1
  x1 = x1
  x2 = x2
  NoTx = NoTx
  NoWallet = NoWallet
  User = {u1}
  Session = {p1, p2, p3}
  Order = {o1}
  Payout = {}
  Owner <- MCOwner
  Amount <- MCAmount
  Fee = 1
  Opening <- MCOpening
INVARIANTS
  CreditedAtMostOnce
