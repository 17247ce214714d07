SPECIFICATION OrderSpec
CONSTANTS
  DocIds = {1, 2}
  Entries <- MCSameDate
  NoDocument = NoDocument
  MaxQueue = 1
  MaxDatas = 2
  t1 = t1
  t2 = t2
  d1 = d1
  d2 = d2
INVARIANT
  FreshUnlessDisturbed
PROPERTY
  ImplementsLaggingCopy
