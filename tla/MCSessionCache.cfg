SPECIFICATION Spec
CONSTANTS
  Item = {w1, w2}
  Notes = {w2}
  Day = 3
  SaveEvery = 2
  WritesFail = TRUE
  NoCopy = NoCopy
  MaxTicks = 3
  MaxTouches = 3
  MaxLoading = 1
  MaxClosing = 1
INVARIANTS
  TypeOK
  CacheCatchesUp
  AnsweredWorkIsSaved
