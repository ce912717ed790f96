SPECIFICATION Spec

CONSTANTS
  u1 = u1
  u2 = u2
  host1 = host1
  User = {u1, u2, host1}
  p1 = p1
  p2 = p2
  p3 = p3
  p4 = p4
  Session = {p1, p2, p3, p4}
  NoTx = NoTx
  NoWallet = NoWallet
  Jobs <- MCJobs
  Opening <- MCOpening
  Faults = 1
  NoAgency = NoAgency
  AgencyOf <- MCAgencyOf
  AgencyRate = 50
  r1 = r1
  GiftRoom = {r1}
  NoRoom = NoRoom
  GiftsPerMinute = 1
  s1 = s1
  s2 = s2
  Show = {s1, s2}
  ShowOf <- MCShowOf
  OpenShows = {s1}
  early = early
  late = late
  Slot = {early, late}
  Clash <- MCClash
  Escrow = 13
  AgencyFee = 2
  MaxBookings = 1
  BagCount = 2
  BagMin = 4
  BagMax = 8
  SpinCost = 10
  SpinsPerDay = 1
  Thing = Thing
  Prizes <- MCPrizes
  OldVip = OldVip
  OldVipUser = u1
  VipPrice <- MCVipPrice
  PlanPrice = 12
  PromoPrice = 9
  PromoUser = host1
  f1 = f1
  f2 = f2
  Family = {f1, f2}
  FamilyHost <- MCFamilyHost
  OldFamilies = {f1}
  Seats <- MCSeats
  LevelTwoAt = 20

INVARIANTS
  TypeOK
  GiftsAddUp
  PurchasesArePaid
  DuplicatesOverlapped
