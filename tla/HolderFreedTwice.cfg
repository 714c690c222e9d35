SPECIFICATION Spec
CONSTANTS
  t1 = t1  t2 = t2  t3 = t3
  o1 = o1  o2 = o2  o3 = o3
  k1 = k1  k2 = k2  k3 = k3  b1 = b1  b2 = b2
  Threads = {t1, t2}
  Objs = {o1, o2, o3}
  Keys = {k1, k2, k3}
  Buckets = {b1, b2}
  KeyOf <- MCKeyOf
  BucketOf <- MCBucketOf
  First = o3
  Inserters = {}
  Fetchers = {t1}
  Destroyers = {t2}
  IsCache = TRUE
  ReaderMod = 4
  NullObj = NullObj  NoThread = NoThread  Destroyed = Destroyed
INVARIANTS DeallocatedOnce
CHECK_DEADLOCK FALSE
