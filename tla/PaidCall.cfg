\* A call, its tickers and its end; the caller can pay two minutes.
SPECIFICATION CallLiveSpec
CONSTANTS
  p1 = p1
  p2 = p2
  p3 = p3
  p4 = p4
  NoTx = NoTx
  NoWallet = NoWallet
  NoCall = NoCall
  Caller = Caller
  Host = Host
  User = {Caller, Host}
  Session = {p1, p2, p3, p4}
  Jobs <- MCJobs
  Rate = 10
  HostShare = 6
  Purses <- MCPurses
INVARIANTS
  TotalsMatchMoney
  HostEarnsShare
PROPERTIES
  SettledCallIsFree
  BilledCallEnds
