SPECIFICATION AnySpec
CONSTANTS
  Player = {a, b}
  Client = {a}
  Nobody = Nobody
  Task = {t1, t2}
  SaveEvery = 2
  MaxTicks = 2
  MaxWork = 1
  MaxPhase = 2
  MaxVisits = 1
  MaxFaults = 1
  Code = {1, 2, 3}
  PageSize = 1
  Times = {1, 2}
  MaxChanges = 2
  Account = {p, q}
  MaxTasks = 2
  MaxSessions = 2
  Unused = Unused
SYMMETRY Interchangeable
CHECK_DEADLOCK FALSE
INVARIANTS
  TypesOK
  CurrentWhenQuiet
  PagesAreWhole
  ReservedIsAwaited
  ShowsItsOwn
