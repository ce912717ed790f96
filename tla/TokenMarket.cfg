\* Four requests about one token and one prediction.
SPECIFICATION LiveSpec
CONSTANTS
  u1 = u1
  u2 = u2
  p1 = p1
  p2 = p2
  p3 = p3
  p4 = p4
  NoTx = NoTx
  NoWallet = NoWallet
  NoItem = NoItem
  Token = Token
  Market = Market
  User = {u1, u2}
  Session = {p1, p2, p3, p4}
  Jobs <- MCJobs
  MaxSupply = 4
  BasePrice = 10
  Slope = 2
  Opening <- MCOpening
INVARIANTS
  BooksHold
  ResolutionExact
PROPERTY
  RequestsEnd
