\* Duplicates on two instances that restart, with a Redis that comes and goes.
SPECIFICATION KeySpec
CONSTANTS
  i1 = i1
  i2 = i2
  r1 = r1
  r2 = r2
  r3 = r3
  k1 = k1
  k2 = k2
  NoKey = NoKey
  Redis = Redis
  Instance = {i1, i2}
  Request = {r1, r2, r3}
  Key = {k1, k2}
  KeyOf <- MCKeyOf
INVARIANT
  OneGrantPerKey
PROPERTY
  HandledWasGranted
