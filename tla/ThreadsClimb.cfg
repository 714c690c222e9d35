SPECIFICATION Spec
CONSTANTS
  t1 = t1  t2 = t2  A = A  C = C  D = D
  a1 = a1  d1 = d1  n2 = n2  c2 = c2  s1 = s1  s2 = s2
  Threads = {t1, t2}
  Classes = {A, C, D}
  Nil = Nil
  Super <- MCSuper
  Lineage <- MCLineage
  Methods = {a1, d1, n2, c2}
  NullMethod = NullMethod
  Sels = {s1, s2}
  SelOf <- MCSelOf
  InitOwn <- MCOwn
  Caches = {h1, h2, h3, h4}
  NullCache = NullCache
  Looks <- MCLooks
  Adds <- AddsToBoth
  Flushes <- MCFlushes
CHECK_DEADLOCK FALSE
INVARIANTS AnswerIsCurrent
