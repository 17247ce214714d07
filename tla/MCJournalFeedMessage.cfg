SPECIFICATION Spec
CONSTANTS
  DocIds = {1, 2}
  Entries <- MCEntries
  NoDocument = NoDocument
  MaxQueue = 1
  MaxDatas = 2
  t1 = t1
  t2 = t2
  d1 = d1
  d2 = d2
INVARIANT
  NoJournalsMessageIsTrue
