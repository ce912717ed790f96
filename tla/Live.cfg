SPECIFICATION Spec

CONSTANTS
  h1 = h1
  h2 = h2
  g1 = g1
  g2 = g2
  v1 = v1
  v2 = v2
  s1 = s1
  s2 = s2
  t1 = t1
  t2 = t2
  k1 = k1
  k2 = k2
  r1 = r1
  r2 = r2
  p1 = p1
  p2 = p2
  p3 = p3
  p4 = p4
  Proc = {p1, p2, p3, p4}
  Jobs <- MCJobs
  Faults = 1
  MaxTime = 2
  Host = {h1, h2, g1, g2}
  Viewer = {v1, v2}
  Stream = {s1, s2, t1, t2}
  OldStreams <- MCOldStreams
  Grace = 1
  NoPeer = NoPeer
  BattleTime = 1
  PunishTime = 1
  KeyLife = 2
  NoBattle = NoBattle
  Schedule = {k1, k2}
  OldSchedules <- MCOldSchedules
  StartsOf <- MCStartsOf
  ScheduleLimit = 1
  OpenLead = 1
  Tier = {1, 2}
  Late = 0
  Window = 1
  RoomLimit = 2
  ChatPause = 1
  MissedAfter = 0
  Chatter = {h1, v1, v2}
  ChatHost = h1
  Senior = {h1}
  StreamSlow = 1
  ChatRate = 1
  KickLife = 1
  NoSocket = NoSocket

INVARIANTS
  TypeOK
  StreamsAddUp
  AnswersStand
  HubSound

PROPERTIES
  TimerSparesHost
  SilenceKept
