SPECIFICATION Spec
CONSTANTS
  t1 = t1  t2 = t2
  root = root  str = str  sub = sub  bad = bad  old = old  a1 = a1  b1 = b1
  nRoot = nRoot  nStr = nStr  nSub = nSub  nA = nA
  retain = retain  init = init
  Threads = {t1, t2}
  Names = {nSub, nA}
  Sought = {nSub}
  Classes = {sub, a1}
  Protos = {sub}
  NameOf <- MCNameOf
  SuperName <- MCSuperName
  ProtoIvars <- MCProtoIvars
  ProtoSels <- MCProtoSels
  Malformed = {}  Outdated = {}
  Batches <- SubBatches
  NewIvars <- MCNewIvars
  Creators = {t1}  Registrars = {t1, t2}  Finders = {t1, t2}
  OwnSels <- MCOwnSels
  NoClass = NoClass  NoName = NoName  NoThread = NoThread
CHECK_DEADLOCK FALSE
INVARIANTS IvarsApart
