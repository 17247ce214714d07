SPECIFICATION Spec
CONSTANTS
  Ids = {i1, i2}
  NoId = NoId
  Texts = {Blank, a}
  Blank = Blank
  Placeholder = Placeholder
  Contains <- MCContains
  NoJournal = NoJournal
  a = a
SYMMETRY IdSymmetry
INVARIANTS
  TypeOK
  SheetShowsDraft
  NothingLeaks
  SavesOverWhatWasRead
  NoHiddenFilter
