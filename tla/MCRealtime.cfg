SPECIFICATION Spec
CONSTANTS
  a1 = a1
  a2 = a2
  b1 = b1
  ra = ra
  rb = rb
  Conn = {a1, a2, b1}
  Replica = {ra, rb}
  ReplicaOf <- Placement
  NoConn = NoConn
  Reattaching = {b1}
  Clogged = {a1, a2}
  MaxFaults = 1
SYMMETRY Twins
CHECK_DEADLOCK FALSE
INVARIANTS
  TypeOK
  OwnerHears
  NobodyUnwatched
  ReplacedLeaveQuietly
  GhostsUnfed
