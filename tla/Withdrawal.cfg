\* Three payouts against the daily limits, the smallest approved at once.
SPECIFICATION MCSpec
CONSTANTS
  creator = creator
  agent = agent
  w1 = w1
  w2 = w2
  w3 = w3
  p1 = p1
  p2 = p2
  p3 = p3
  NoTx = NoTx
  NoWallet = NoWallet
  User <- MCUser
  Session = {p1, p2, p3}
  Payout = {w1, w2, w3}
  Owner <- MCOwner
  Gross <- MCGross
  FeeAgency <- MCFee
  AgencyOwner = agent
  Small = {w1}
  MinAmount = 2
  MaxAmount = 5
  Multiple = 1
  MaxPerDay = 2
  MaxDailyAmount = 6
  PoolSize = 4
  Opening <- MCOpening
INVARIANTS
  BooksHold
  DailyLimits
PROPERTY
  RequestsEnd
