SPECIFICATION Spec

CONSTANTS
  u1 = u1
  u2 = u2
  joe = joe
  anna = anna
  budi = budi
  cici = cici
  p1 = p1
  p2 = p2
  p3 = p3
  p4 = p4
  Proc = {p1, p2, p3, p4}
  Jobs <- MCJobs
  Faults = 1
  MaxTime = 2
  User = {u1, u2, joe}
  Name = {anna, budi, cici}
  Members = {u1, u2}
  NameOf <- MCNameOf
  NoAccount = NoAccount
  AccessLife = 2
  RefreshLife = 3
  Rate = 1
  Capacity = 1
  NoToken = NoToken
  strict = strict
  harsh = harsh
  mild = mild
  NoRule = NoRule
  Chatter = {u1, u2}
  ModRule <- MCRule
  MuteTime = 1
  BanTime = 1
  i1 = i1
  Image = {i1}
  Forever = 9
  m1 = m1
  m2 = m2
  m3 = m3
  m4 = m4
  Owner = {u1, u2}
  Method = {m1, m2, m3, m4}
  OldMethods <- MCOldMethods
  BankLimit = 3
  AddressLimit = 1
  sol = sol
  btc = btc
  usdt = usdt
  bep = bep
  trc = trc
  Chain = {sol, btc, usdt, bep, trc}
  Solana = sol
  Bitcoin = btc
  HotWallets = {sol, btc, usdt, bep}
  Whitelist <- MCWhitelist
  PerDay = 2
  Day = 1
  Unlimited = 9
  NoTransfer = NoTransfer
  Applicant = {u1, joe}
  Boss = {u1, u2}
  c1 = c1
  c2 = c2
  c3 = c3
  g1 = g1
  g2 = g2
  l1 = l1
  l2 = l2
  s1 = s1
  v1 = v1
  x1 = x1
  x2 = x2
  x3 = x3
  h1 = h1
  heart = heart
  wow = wow
  frown = frown
  open = open
  closed = closed
  Party = {u1, u2, joe}
  Conversation = {c1, c2, c3}
  Message = {g1, g2}
  OldChats <- MCOldChats
  Emoji = {heart, wow, frown}
  EmojiWhitelist = {heart, wow}
  MaxReactions = 1
  Lasting = 1
  Endless = 9
  NoRow = NoRow
  Guest = {u1, u2}
  LiveRoom = {l1, l2}
  LiveStream = {s1}
  LiveMessage = {g1}
  VoiceRoom = {v1}
  MaxSpeakers = 1
  NoLine = NoLine
  Fan = {u1, u2}
  Creator = u2
  Video = {x1, x2, x3}
  OldVideos = {x2, x3}
  Short = {h1}
  Comment = {c1}
  Content = {c2}
  Visibility = {open, closed}
  Public = open
  TokenLife = 1
  MarkLife = 1
  KeepFor = 1
  NoVideo = NoVideo

INVARIANTS
  TypeOK
  SessionsHold
  RulingsStand
  ChecksHoldAlone
  MessagesHold
  RoomsHold
  MediaHold
