SPECIFICATION Spec
CONSTANTS
  A = A  B = B  C = C
  a1 = a1  n1 = n1  g1 = g1  f = f  d = d
  s1 = s1  sF = sF  sD = sD
  cat = cat  x1 = x1
  Classes = {A, B, C}
  Nil = Nil
  Super <- MCSuper
  Lineage <- MCLineage
  ClassOrder <- MCOrder
  Methods = {f, d, g1}
  NullMethod = NullMethod  NilMethod = NilMethod
  Sels = {s1, sF, sD}
  SelOf <- MCSelOf
  FwdSel = sF  DropSel = sD
  InitOwn <- ForwardingA
  Categories = {cat}
  CatClass <- OnLeaf
  CatMethods <- CatInstance
  Sites = {}
  SiteSel <- MCSiteSel
  SiteKinds <- ToInstances
  AddKinds = {"instance"}
  NoCache = NoCache  NoEntry = NoEntry
  MaxVersion = 1
INVARIANTS CacheCoherent
CHECK_DEADLOCK FALSE
