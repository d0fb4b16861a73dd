------------------------------ MODULE MCSeats ------------------------------
(***************************************************************************)
(* Who may sit in a workshop, and as what.  Five models answer: Workshop,  *)
(* for presence and the choice of a host, up to the handover, with three   *)
(* player ids of which two are the owner's; Seats, for keys and            *)
(* characters, with two players and a starter; Accounts, for signing in,   *)
(* with two browsers, of which one writes a name in capitals and one is    *)
(* behind a proxy; Sprites, for one character and two servers; and Stores, *)
(* for three sockets, of one player or of two.  They share no state, so a  *)
(* behaviour is one of a single model: part says which, and what belongs   *)
(* to the others is Unused.                                                *)
(***************************************************************************)
EXTENDS Workshop, TLC

CONSTANTS
  SeatAccount, SeatPlayer, SeatAccountOf, Key, Request, Given, GivenOwner,
  Cap, MaxIds, MaxFaults,                                   \* of Seats
  Browser, Name, Lower, Password, Address, Forwarded, TrustForwarded,
  Limit, Window, Crowd, MaxTime, MaxRequests,               \* of Accounts
  Replica, SpriteCharacter, MaxVersion,                      \* of Sprites
  Conn, NoConn, Peer, Seating, ReplicaOf,                   \* of Stores
  Unused

VARIABLES
  part,
  row, copy, creating, keys, characters, ids, request, faults,
  accounts, cookie, signin, buckets, now, requests, typed, granted,
  sprites, entry, load, evicting, excused,
  table, maps, stage, joined, pushed, registry, held, playerOf, answers, parted

seatVars    == <<row, copy, creating, keys, characters, ids, request, faults>>
accountVars == <<accounts, cookie, signin, buckets, now, requests, typed, granted>>
spriteVars  == <<sprites, entry, load, evicting, excused>>
storeVars   == <<table, maps, stage, joined, pushed, registry, held, playerOf,
                 answers, parted>>

S == INSTANCE Seats WITH Account <- SeatAccount, Player <- SeatPlayer,
                         AccountOf <- SeatAccountOf, Nobody <- NoOne, cached <- copy
A == INSTANCE Accounts WITH Nothing <- NoOne
P == INSTANCE Sprites WITH row <- sprites, Character <- SpriteCharacter
C == INSTANCE Stores WITH Player <- Peer

(* What the proofs assume of the constants; TLC evaluates it.              *)
ASSUME SeatsAssumption ==
  /\ SeatAccountOf \in [SeatPlayer -> SeatAccount]
  /\ NoOne \notin SeatAccount /\ NoOne \notin 0..MaxIds
  /\ MaxIds \in Nat /\ Given \in 1..MaxIds
  /\ GivenOwner \in [1..Given -> SeatAccount \cup {NoOne}]
ASSUME AccountsAssumption ==
  /\ NoOne \notin Password /\ NoOne \notin A!AccountName
  /\ Limit \in Nat \ {0} /\ Window \in Nat
  /\ MaxTime \in Nat /\ MaxRequests \in Nat
ASSUME SpritesAssumption == MaxVersion \in Nat \ {0}
ASSUME StoresAssumption ==
  /\ NoConn \notin Conn
  /\ Seating \subseteq [Conn -> Peer] /\ ReplicaOf \in [Conn -> Replica]

NoHosts == /\ session = Unused /\ cached = Unused /\ stored = Unused /\ sockets = Unused
           /\ rows = Unused /\ leaving = Unused /\ timer = Unused /\ judges = Unused
NoSeats == /\ row = Unused /\ copy = Unused /\ creating = Unused /\ keys = Unused
           /\ characters = Unused /\ ids = Unused /\ request = Unused /\ faults = Unused
NoAccounts == /\ accounts = Unused /\ cookie = Unused /\ signin = Unused
              /\ buckets = Unused /\ now = Unused /\ requests = Unused
              /\ typed = Unused /\ granted = Unused
NoSprites  == /\ sprites = Unused /\ entry = Unused /\ load = Unused
              /\ evicting = Unused /\ excused = Unused
NoStores   == /\ table = Unused /\ maps = Unused /\ stage = Unused /\ joined = Unused
              /\ pushed = Unused /\ registry = Unused /\ held = Unused
              /\ playerOf = Unused /\ answers = Unused /\ parted = Unused

AnyInit ==
  \/ part = "hosts" /\ Init /\ NoSeats /\ NoAccounts /\ NoSprites /\ NoStores
  \/ part = "seats" /\ S!Init /\ NoHosts /\ NoAccounts /\ NoSprites /\ NoStores
  \/ part = "accounts" /\ A!Init /\ NoHosts /\ NoSeats /\ NoSprites /\ NoStores
  \/ part = "sprites" /\ P!Init /\ NoHosts /\ NoSeats /\ NoAccounts /\ NoStores
  \/ part = "stores" /\ C!Init /\ NoHosts /\ NoSeats /\ NoAccounts /\ NoSprites
AnyNext ==
  \/ part = "hosts" /\ Next
     /\ UNCHANGED <<part, seatVars, accountVars, spriteVars, storeVars>>
  \/ part = "seats" /\ S!Next
     /\ UNCHANGED <<part, vars, accountVars, spriteVars, storeVars>>
  \/ part = "accounts" /\ A!Next
     /\ UNCHANGED <<part, vars, seatVars, spriteVars, storeVars>>
  \/ part = "sprites" /\ P!Next
     /\ UNCHANGED <<part, vars, seatVars, accountVars, storeVars>>
  \/ part = "stores" /\ C!Next
     /\ UNCHANGED <<part, vars, seatVars, accountVars, spriteVars>>
AnySpec ==
  AnyInit /\ [][AnyNext]_<<part, vars, seatVars, accountVars, spriteVars, storeVars>>

(* The instance: values that are no sets of model values.                  *)
CONSTANTS o, g, h, pa, pb
OwnersTwoIds   == [p \in Player |-> IF p = 2 THEN g ELSE o]
SeatedAs       == [p \in SeatPlayer |-> IF p = pa THEN o ELSE g]
StarterOwner   == <<NoOne>>
Lowered        == [n \in Name |-> "ann"]
PeerAddress    == [b \in Browser |-> IF b = "here" THEN "i1" ELSE "i2"]
ProxiedAddress == [b \in Browser |-> IF b = "here" THEN NoOne ELSE "i1"]
OneOrTwoPeers  == {<<"p", "p", "p">>, <<"p", "p", "q">>}
TwoHereOneAway == <<"r1", "r1", "r2">>

Interchangeable ==
  Permutations(Key) \cup Permutations(Request) \cup Permutations(Password)
BeforeHandover ==
  part = "hosts" => session.phase \in {"Lobby", "Phase1"} /\ timer = "running"

(* Every variable of Seats and Accounts has its type.                      *)
SeatTypesOK == /\ part = "seats" => S!TypeOK
               /\ part = "accounts" => A!TypeOK

(* While somebody is online a workshop lacks a host only if its owner is   *)
(* not among the players; a host is one of the players, and an owner who   *)
(* is online is the host.                                                  *)
HostWhenDue == part = "hosts" => HostIsDue

(* No two players of a workshop play one character, however their joins,   *)
(* choices and reloads interleave.                                         *)
NobodySharesCharacter == part = "seats" => S!NobodySharesCharacter

(* What the error message promises: a character is drawn again once.       *)
OneRedraw == part = "seats" => S!OneRedraw

(* The sprites a seat refers to can still be loaded; and a server shows    *)
(* old ones, or a deleted character's, only until it evicts them, unless   *)
(* another server made the change or a load had read the row before it.    *)
SpritesAreSound == /\ part = "seats" => S!SpritesExist
                   /\ part = "sprites" => P!OldSpritesExplained

(* A browser has the cookie of an account only if its password was typed   *)
(* there, whoever created the account first; and no key passes a limiter   *)
(* twice its limit in the length of a window.                              *)
AccountsAreSafe == part = "accounts" => A!CookiesAreEarned /\ A!LimitsHold

(* The store in memory, which the tests use, answers as Postgres does, but *)
(* for rows past their time and connections restored without a fence.      *)
StoresAgree == part = "stores" => C!StoresAgree
=============================================================================
