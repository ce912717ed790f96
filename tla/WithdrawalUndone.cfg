\* A withdrawal row outlives the debit that was rolled back.
SPECIFICATION Spec
CONSTANTS
  creator = creator
  agent = agent
  w1 = w1
  w2 = w2
  w3 = w3
  p1 = p1
  p2 = p2
  p3 = p3
  NoTx = NoTx
  NoWallet = NoWallet
  User <- MCUser
  Session = {p1, p2}
  Payout = {w1}
  Owner <- MCOwner
  Gross <- MCGross
  FeeAgency <- MCFee
  AgencyOwner = agent
  Small = {w1}
  MinAmount = 2
  MaxAmount = 5
  Multiple = 2
  MaxPerDay = 3
  MaxDailyAmount = 100
  PoolSize = 3
  Opening <- MCPoor
INVARIANT
  RowImpliesDebited
