SPECIFICATION FairSpec
CONSTANTS
  r1 = r1
  r2 = r2
  h1 = h1
  h2 = h2
  h3 = h3
  t1 = t1
  Handler = {h1, h2, h3}
  Command = {h1, h3}
  Ticker = {t1}
  Replica = {r1, r2}
  ReplicaOf <- Where
  NoOne = NoOne
  Interval = 2
  Patience = 1
CHECK_DEADLOCK FALSE
INVARIANTS
  TypeOK
  LostUpdatesExplained
PROPERTIES
  ImplementsExclusiveWriter
  RowComesFree
