SPECIFICATION AnySpec
CONSTANTS
  o = o
  g = g
  h = h
  pa = pa
  pb = pb
  NoOne = NoOne
  Unused = Unused
  Player = {1, 2, 3}
  Account = {o, g, h}
  AccountOf <- OwnersTwoIds
  Owner = o
  JudgeRun = {j1}
  MaxGames = 1
  SeatAccount = {o, g}
  SeatPlayer = {pa, pb}
  SeatAccountOf <- SeatedAs
  Key = {k1, k2}
  Request = {r1, r2}
  Given = 1
  GivenOwner <- StarterOwner
  Cap = 1
  MaxIds = 3
  MaxFaults = 1
  Browser = {"here", "proxied"}
  Name = {"Ann", "ann"}
  Lower <- Lowered
  Password = {w1, w2}
  Address <- PeerAddress
  Forwarded <- ProxiedAddress
  TrustForwarded = FALSE
  Limit = 2
  Window = 2
  Crowd = 1
  MaxTime = 2
  MaxRequests = 5
  Replica = {"r1", "r2"}
  SpriteCharacter = {"c"}
  MaxVersion = 2
  Conn = {1, 2, 3}
  NoConn = 0
  Peer = {"p", "q"}
  Seating <- OneOrTwoPeers
  ReplicaOf <- TwoHereOneAway
SYMMETRY Interchangeable
CONSTRAINT BeforeHandover
CHECK_DEADLOCK FALSE
INVARIANTS
  SeatTypesOK
  HostWhenDue
  NobodySharesCharacter
  SpritesAreSound
  AccountsAreSafe
  StoresAgree
