SPECIFICATION Spec
CONSTANTS
  t1 = t1  t2 = t2  plain = plain  spy = spy  big = big  raw = raw
  k1 = k1  k2 = k2  k3 = k3
  Threads = {t1, t2}
  Objects = {o1, o2}
  Tables = {b1}
  Classes = {plain, spy, raw}
  Made = {plain, raw}
  Unfinished = {raw}
  InstanceSize <- MCInstanceSize
  IvarAt = 2
  Spaces <- MCSpaces
  AoIndex = 2
  Keys = {k1, k2, k3}
  Values = {v1}
  Bucket <- MCBucket
  Buckets = 2
  Getters = {t2}
  FirstSizers = {t1}
  Setters = {t1}
  Swaps <- MCSwaps
  CopyAssociated = FALSE
  MaxHeld = 1
  Null = Null  NoThing = NoThing
CHECK_DEADLOCK FALSE
INVARIANTS TableIsFreed
