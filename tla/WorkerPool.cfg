\* Two workers and three jobs at a queue of two.
SPECIFICATION PoolLiveSpec
CONSTANTS
  w1 = w1
  w2 = w2
  j1 = j1
  j2 = j2
  j3 = j3
  xp = xp
  video = video
  NoJob = NoJob
  Worker = {w1, w2}
  Job = {j1, j2, j3}
  JobType = {xp, video}
  TypeOf <- MCTypeOf
  MaxRetries <- MCMaxRetries
  QueueSize = 2
INVARIANTS
  NoSendOnClosedChannel
  JobsHaveOnePlace
  GracefulMeansDrained
PROPERTIES
  ImplementsJobQueue
  PoolSettles
