SPECIFICATION Spec
CONSTANTS
  Item = {w1, w2, w3}
  Notes = {}
  Day = 3
  SaveEvery = 2
  WritesFail = FALSE
  NoCopy = NoCopy
  MaxTicks = 4
  MaxTouches = 3
  MaxLoading = 1
  MaxClosing = 1
PROPERTIES
  StaleWritesAreRejected
