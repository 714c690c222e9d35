SPECIFICATION Spec
CONSTANTS
  t1 = t1  t2 = t2  t3 = t3
  x1 = x1  x2 = x2  x3 = x3  y1 = y1
  n1 = n1  n2 = n2  n3 = n3
  Threads = {t1, t2, t3}
  Items = {x1, x2, x3, y1}
  NameOf <- MCOneName
  UniqueNames = TRUE
  Width <- MCUnit
  AddedBy <- MCAddedBy
  Creators = {t1}
  Readers = {t3}
  Bounded = {t3}
  NoItem = NoItem  NoThread = NoThread  Wild = Wild
CHECK_DEADLOCK FALSE
PROPERTIES ImplementsAppendLog
