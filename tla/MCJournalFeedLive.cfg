SPECIFICATION FairSpec
CONSTANTS
  DocIds = {1, 2}
  Entries <- MCOneEntry
  NoDocument = NoDocument
  MaxQueue = 2
  MaxDatas = 2
  t1 = t1
  t2 = t2
  d1 = d1
  d2 = d2
PROPERTY
  SpinnerStops
