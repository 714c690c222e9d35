SPECIFICATION Spec
CONSTANTS
  t1 = t1  t2 = t2
  root = root  str = str  sub = sub  bad = bad  old = old  a1 = a1  b1 = b1
  nRoot = nRoot  nStr = nStr  nSub = nSub  nA = nA
  retain = retain  init = init
  Threads = {t1, t2}
  Names = {nRoot, nStr, nA}
  Sought = {nStr}
  Classes = {root, str, a1, b1}
  Protos = {root, str}
  NameOf <- MCNameOf
  SuperName <- MCSuperName
  ProtoIvars <- MCProtoIvars
  ProtoSels <- MCProtoSels
  Malformed = {}  Outdated = {}
  Batches <- MCBatches
  NewIvars <- MCNewIvars
  Creators = {t1}  Registrars = {t2}  Finders = {t1}
  OwnSels <- OwnRetain
  NoClass = NoClass  NoName = NoName  NoThread = NoThread
CHECK_DEADLOCK FALSE
INVARIANTS SelectorsUnique
