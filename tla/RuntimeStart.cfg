SPECIFICATION Spec
CONSTANTS
  t1 = t1  t2 = t2
  posix = posix  categs = categs  ao = ao  holders = holders
  categories = categories  associated = associated  own = own
  Threads = {t1, t2}
  Early = {t1}
  Initializers = {posix, categs, ao, holders}
  MaxInitializers = 3
  Settable <- MCSettable
  Sets <- MCSets
  Adds <- MCAdds
  Exts = {categories, associated, own}
  ClassSpace <- MCClassSpace
  ObjectSpace <- MCObjectSpace
  User = User  Default = Default  NoValue = NoValue  NoExt = NoExt
CHECK_DEADLOCK FALSE
INVARIANTS TypeOK MadeOnce AllPerformed AreasApart
PROPERTIES InitReturns
