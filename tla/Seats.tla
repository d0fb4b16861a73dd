-------------------------------- MODULE Seats --------------------------------
(***************************************************************************)
(* Who sits in a workshop, with which key, playing which character.        *)
(*                                                                         *)
(* A seat is opened by a reconnect token, here a key.  Keys are rows of    *)
(* player_identities, written in the transaction that saves the session; a *)
(* request is authorised by its key before it waits for the session's      *)
(* lease, and the key may have been replaced and the player removed before *)
(* it goes on.  Drawing a character takes a permit of the image queue and  *)
(* tens of seconds, without the lease, between two reloads of the session. *)
(*                                                                         *)
(* A character is a row of characters, owned by an account or by nobody (a *)
(* starter); a seat has a copy of it, whose sprites are inline or refer to *)
(* a row.  What runs under the lease is one action here: what can happen   *)
(* inside it is in SessionCache and WriteLease; hosts and presence are in  *)
(* Workshop, so any player may give a host's command here.                 *)
(***************************************************************************)
EXTENDS Naturals, FiniteSets

CONSTANTS
  Account, Player, AccountOf,  \* the accounts, the player ids to be drawn
  Nobody,
  Key,                         \* the reconnect tokens to be drawn
  Request,                     \* authorised requests that may be under way
  Given, GivenOwner,           \* the characters at first, and who owns them
  Cap,                         \* characters an account may create
  MaxIds, MaxFaults            \* bounds: character ids drawn, failures

VARIABLES
  row,         \* the stored session: its phase and its seats
  cached,      \* the server's copy of it
  creating,    \* the copy create_workshop has saved and not yet cached
  keys,        \* whose seat a key opens
  characters,  \* the rows of characters
  ids,         \* character ids drawn so far
  request,     \* the requests authorised by a key
  faults

tables == <<row, keys, characters, ids>>
vars == <<tables, cached, creating, request, faults>>

-----------------------------------------------------------------------------
(* Sprites that are inline were drawn, or are the placeholder a failed     *)
(* drawing leaves.  redraws is history: how often it was drawn again.      *)
Id        == 1..MaxIds
Character == [id: Id, sprites: {"drawn", "placeholder", "reference"}, of: Id,
              left: Nat, redraws: Nat]
NoCharacter == [id |-> 0]
NoSeat      == [id |-> Nobody]
NoSession   == [phase |-> "none", seats |-> [p \in Player |-> NoSeat]]
NoRow       == [sprites |-> "none"]
Deleted     == [sprites |-> "deleted"]    \* no row either
Idle        == [op |-> "none", key |-> Nobody, player |-> Nobody]

Seated(s)     == {p \in Player : s.seats[p] # NoSeat}
SeatOf(s, a)  == {p \in Seated(s) : AccountOf[p] = a}
Selected(s)   == {p \in Seated(s) : s.seats[p] # NoCharacter}
IdsOf(s, ps)  == {s.seats[p].id : p \in ps \cap Selected(s)}
Kept          == {c \in Id : characters[c] \notin {NoRow, Deleted}}
Owned(a)      == {c \in Kept : characters[c].owner = a}

Unsanitized(s) == s     \* variant: sprites are saved inline
(* Saving turns drawn sprites into references; the placeholder stays.      *)
Sanitized(s) == [s EXCEPT !.seats = [p \in Player |->
  IF p \in Selected(s) /\ @[p].sprites = "drawn"
  THEN [@[p] EXCEPT !.sprites = "reference", !.of = s.seats[p].id] ELSE @[p]]]

Save(s)   == row' = Sanitized(s) /\ cached' = s
Reloaded  == row
NoCopy(s) == s.phase \in {"none", "deleted"}
Refresh   == cached' = (IF NoCopy(row) THEN NoSession ELSE row) /\ UNCHANGED row

(* What a seat gets of a row: a reference to its sprites.                  *)
Profile(c) == [id |-> c, sprites |-> "reference", of |-> c,
               left |-> characters[c].left, redraws |-> 0]
(* pick_random_starter_profile leases the sprites of any row that has      *)
(* drawn ones under a new id, else a starter under its own.                *)
Reusable(excluded) == {c \in Kept \ excluded : characters[c].sprites = "drawn"}
Starters(excluded) == Owned(Nobody) \ excluded
Leased(c)  == [id |-> ids + 1, sprites |-> "reference", of |-> c, left |-> 0, redraws |-> 0]
Picks(excluded) ==
  IF Reusable(excluded) # {} THEN {Leased(c) : c \in Reusable(excluded)}
  ELSE {Profile(c) : c \in Starters(excluded)}

(* resolve_character_for_session: a named character must be the account's, *)
(* or a starter that is not excluded; a name nobody has seats the player   *)
(* without one; who names none must own none, and leases one.              *)
Named(a, excluded) ==
  {Profile(c) : c \in Owned(a) \cup Starters(excluded)} \cup {NoCharacter}
Resolved(a, excluded) ==
  Named(a, excluded) \cup (IF Owned(a) = {} THEN Picks(excluded) ELSE {})

Draws(character) ==
  ids' = IF character # NoCharacter /\ character.id = ids + 1 THEN ids + 1 ELSE ids
Fresh == ids < MaxIds

Fail == faults < MaxFaults /\ faults' = faults + 1

FreeKeys == {k \in Key : keys[k] = Nobody /\ \A r \in Request : request[r].key # k}
NewKey   == CHOOSE k \in FreeKeys : TRUE

-----------------------------------------------------------------------------
Init ==
  /\ row = NoSession /\ cached = NoSession /\ creating = NoSession
  /\ keys = [k \in Key |-> Nobody]
  /\ characters = [c \in Id |->
       IF c <= Given THEN [owner |-> GivenOwner[c], sprites |-> "drawn", left |-> 1]
       ELSE NoRow]
  /\ ids = Given
  /\ request = [r \in Request |-> Idle]
  /\ faults = 0

(* create_workshop saves the session with its creator's seat and key; the  *)
(* copy is put in the cache, over whatever is there, afterwards.           *)
Create(p) ==
  /\ row = NoSession /\ FreeKeys # {} /\ Fresh
  /\ \E c \in Resolved(AccountOf[p], {}) :
       LET s == [phase |-> "Lobby", seats |-> [NoSession.seats EXCEPT ![p] = c]] IN
       /\ row' = Sanitized(s)
       /\ creating' = s
       /\ Draws(c)
  /\ keys' = [keys EXCEPT ![NewKey] = p]
  /\ UNCHANGED <<cached, characters, request, faults>>

Created ==
  /\ creating # NoSession
  /\ cached' = creating
  /\ creating' = NoSession
  /\ UNCHANGED <<tables, request, faults>>

(* create_workshop_lobby reserves the host's seat; as long as nobody has   *)
(* come the owner may delete the workshop, which no other will replace.    *)
CreateLobby ==
  /\ row = NoSession
  /\ row' = [NoSession EXCEPT !.phase = "Lobby"]
  /\ creating' = row'
  /\ UNCHANGED <<keys, characters, ids, cached, request, faults>>

Delete ==
  /\ Reloaded.phase = "Lobby" /\ Seated(Reloaded) = {}
  /\ row' = [NoSession EXCEPT !.phase = "deleted"]
  /\ cached' = NoSession
  /\ UNCHANGED <<keys, characters, ids, creating, request, faults>>

(* The copy is loaded, or thrown away and loaded at the next use: a        *)
(* notification, a restart, a handler that refuses after its reload.       *)
Load ==
  /\ Refresh
  /\ UNCHANGED <<keys, characters, ids, creating, request, faults>>

(* A session, a key for p and the artifact are saved in one transaction,   *)
(* and the key goes to the client; or the copy is put back.                *)
Seat(p, s, revoked) ==
  \/ /\ Save(s)
     /\ keys' = [k \in Key |->
          IF k = NewKey THEN p ELSE IF k \in revoked THEN Nobody ELSE keys[k]]
     /\ UNCHANGED faults
  \/ /\ Fail /\ Refresh
     /\ UNCHANGED keys

(* Join as an account that has no seat, in the lobby.                      *)
Join(p) ==
  LET others == IdsOf(Reloaded, Seated(Reloaded)) IN
  /\ Reloaded.phase = "Lobby"
  /\ p \notin Seated(Reloaded) /\ SeatOf(Reloaded, AccountOf[p]) = {}
  /\ \A k \in Key : keys[k] # p
  /\ \A r \in Request : request[r].player # p
  /\ FreeKeys # {} /\ Fresh
  /\ \E c \in Resolved(AccountOf[p], others) :
       /\ Seat(p, [Reloaded EXCEPT !.seats[p] = c], {})
       /\ Draws(c)
  /\ UNCHANGED <<characters, creating, request>>

(* Join as an account that has one: another key for it.  In the lobby a    *)
(* placeholder is replaced.                                                *)
Restore(a) ==
  /\ FreeKeys # {} /\ Fresh
  /\ \E p \in SeatOf(Reloaded, a) :
       LET others  == IdsOf(Reloaded, Seated(Reloaded) \ {p})
           mine    == Reloaded.seats[p]
           upgrade == Reloaded.phase = "Lobby" /\ mine # NoCharacter
                      /\ mine.sprites = "placeholder" /\ Picks(others) # {}
       IN  \E c \in IF upgrade THEN Picks(others) ELSE {mine} :
             /\ Seat(p, [Reloaded EXCEPT !.seats[p] = c], {})
             /\ Draws(c)
  /\ UNCHANGED <<characters, creating, request>>

-----------------------------------------------------------------------------
(* Requests that come with a key. *)

(* authorize_reconnect_identity finds the key and whose it is.  A key is   *)
(* known to a client once it has been answered.                            *)
Authorize(r, k) ==
  /\ request[r] = Idle
  /\ keys[k] # Nobody /\ creating = NoSession
  /\ request' = [request EXCEPT ![r] =
       [op |-> "authorized", key |-> k, player |-> keys[k]]]
  /\ UNCHANGED <<tables, cached, creating, faults>>

(* The key was not used for too long: a request that comes with it is      *)
(* refused and the key goes.                                               *)
Expire(k) ==
  /\ keys[k] # Nobody /\ creating = NoSession
  /\ keys' = [keys EXCEPT ![k] = Nobody]
  /\ UNCHANGED <<row, characters, ids, cached, creating, request, faults>>

Done(r) == request' = [request EXCEPT ![r] = Idle]

(* The request fails: no lease, no session, no such player any more.       *)
Refuse(r) ==
  /\ request[r] # Idle
  /\ Done(r)
  /\ UNCHANGED <<tables, cached, creating, faults>>

(* Reconnect: a new key replaces the one that was shown.                   *)
Reconnect(r) ==
  /\ request[r].op = "authorized" /\ Done(r)
  /\ request[r].player \in Seated(Reloaded)
  /\ FreeKeys # {}
  /\ Seat(request[r].player, Reloaded, {request[r].key})
  /\ UNCHANGED <<characters, ids, creating>>

(* A command works on the cached copy, loaded only when there is none.     *)
Copy == IF cached = NoSession THEN row ELSE cached
Command(r, s) ==
  /\ request[r].op = "authorized" /\ Done(r)
  /\ request[r].player \in Seated(Copy)
  /\ \/ Save(s) /\ UNCHANGED faults
     \/ Fail /\ cached' = Copy /\ UNCHANGED row
  /\ UNCHANGED <<keys, characters, ids, creating>>

(* The account's own characters are free to take: nobody else can have     *)
(* one.                                                                    *)
NotExcluded(p) == Kept
NotTaken(p)    == {c \in Kept : characters[c].owner = Nobody =>
                                c \notin IdsOf(Copy, Seated(Copy) \ {p})}
SelectCharacter(r) ==
  LET p == request[r].player IN
  /\ request[r].op = "authorized"
  /\ \E c \in NotTaken(p) :
       /\ characters[c].owner \in {AccountOf[p], Nobody}
       /\ Command(r, [Copy EXCEPT !.seats[p] = Profile(c)])

StartPhase1(r) ==
  /\ Copy.phase = "Lobby" /\ Selected(Copy) = Seated(Copy)
  /\ Command(r, [Copy EXCEPT !.phase = "Play"])

(* Only the host's seat is kept; the keys of the others stay.              *)
ResetGame(r) ==
  /\ request[r].op = "authorized"
  /\ Command(r, [phase |-> "Lobby", seats |->
       [p \in Player |-> IF p = request[r].player THEN Copy.seats[p] ELSE NoSeat]])

-----------------------------------------------------------------------------
(* Characters. *)

(* A redraw is refused for a character that was redrawn and whose sprites  *)
(* are inline.  The new row's owner is the owner of the character that is  *)
(* selected now.                                                           *)
StartRedraw(r) ==
  LET p == request[r].player
      c == Reloaded.seats[p]
  IN
  /\ request[r].op = "authorized"
  /\ p \in Seated(Reloaded)
  /\ c # NoCharacter => c.left > 0 \/ c.sprites = "reference"
  /\ request' = [request EXCEPT ![r] =
       [op |-> "drawing", key |-> Nobody, player |-> p,
        owner |-> IF c # NoCharacter /\ c.id \in Kept THEN characters[c.id].owner ELSE Nobody]]
  /\ Refresh
  /\ UNCHANGED <<keys, characters, ids, creating, faults>>

(* The sprites the seat is given, on top of whatever it has by now.        *)
Redrawn(c, id, sprites) ==
  [id |-> id, sprites |-> sprites, of |-> id,
   left |-> IF c = NoCharacter THEN 1 ELSE IF c.left = 0 THEN 0 ELSE c.left - 1,
   redraws |-> IF c = NoCharacter THEN 0 ELSE c.redraws + 1]
InPlace(c)   == c # NoCharacter /\ c.sprites # "reference"
Row(c, owner) == [owner |-> owner, sprites |-> c.sprites, left |-> c.left]

CharacterFirst(s, c, owner) ==
  \/ Save(s) /\ characters' = [characters EXCEPT ![c.id] = Row(c, owner)] /\ UNCHANGED faults
  \/ /\ Fail /\ Refresh
     /\ characters' \in {characters, [characters EXCEPT ![c.id] = Row(c, owner)]}

(* The model drew the sprites, or it failed or the queue had no permit for *)
(* too long: then they are the placeholder.  The lease is taken and the    *)
(* session reloaded; a character whose sprites are references gets a new   *)
(* id.                                                                     *)
FinishRedraw(r, drawn) ==
  LET p  == request[r].player
      c  == Reloaded.seats[p]
      id == IF InPlace(c) THEN c.id ELSE ids + 1
      new == Redrawn(c, id, drawn)
  IN
  /\ request[r].op = "drawing"
  /\ p \in Seated(Reloaded) /\ Fresh
  /\ CharacterFirst([Reloaded EXCEPT !.seats[p] = new], new, request[r].owner)
  /\ ids' = IF InPlace(c) THEN ids ELSE ids + 1
  /\ Done(r)
  /\ UNCHANGED <<keys, creating>>

(* create_character counts and inserts under a lock of the account.        *)
CreateCharacter(a) ==
  /\ Cardinality(Owned(a)) < Cap /\ Fresh
  /\ ids' = ids + 1
  /\ characters' = [characters EXCEPT ![ids + 1] =
       [owner |-> a, sprites |-> "drawn", left |-> 1]]
  /\ UNCHANGED <<row, keys, cached, creating, request, faults>>

DeleteCharacter(a) ==
  \E c \in Owned(a) :
    /\ characters' = [characters EXCEPT ![c] = Deleted]
    /\ UNCHANGED <<row, keys, ids, cached, creating, request, faults>>

-----------------------------------------------------------------------------
Next ==
  \/ CreateLobby \/ Created \/ Delete \/ Load
  \/ \E p \in Player : Create(p) \/ Join(p)
  \/ \E a \in Account : Restore(a) \/ CreateCharacter(a) \/ DeleteCharacter(a)
  \/ \E k \in Key : Expire(k)
  \/ \E r \in Request :
       \/ \E k \in Key : Authorize(r, k)
       \/ Refuse(r) \/ Reconnect(r)
       \/ SelectCharacter(r) \/ StartPhase1(r) \/ ResetGame(r)
       \/ StartRedraw(r)
       \/ \E drawn \in {"drawn", "placeholder"} : FinishRedraw(r, drawn)

Spec == Init /\ [][Next]_vars

-----------------------------------------------------------------------------
IsSession(s) ==
  /\ s.phase \in {"none", "Lobby", "Play", "deleted"}
  /\ \A p \in Selected(s) : s.seats[p] \in Character

TypeOK ==
  /\ IsSession(row) /\ IsSession(cached) /\ IsSession(creating)
  /\ \A p \in Selected(row) : row.seats[p].sprites # "drawn"
  /\ keys \in [Key -> Player \cup {Nobody}]
  /\ ids \in Id /\ \A c \in Kept : c <= ids

(* No two players of a workshop have the same character, however they came *)
(* by it: named when joining, leased, selected, redrawn, or upgraded.      *)
NobodySharesCharacter ==
  \A s \in {row, cached} : \A p, q \in Selected(s) :
    p # q => s.seats[p].id # s.seats[q].id

(* Sprites a seat refers to can be fetched, unless the character's owner   *)
(* has deleted it since: a redraw that fails half-way leaves no seat with  *)
(* a character that was never stored.                                      *)
SpritesExist ==
  \A s \in {row, cached} : \A p \in Selected(s) :
    s.seats[p].sprites # "placeholder" => characters[s.seats[p].of] # NoRow

(* What the domain's error says: a dragon is redrawn once.                 *)
OneRedraw == \A p \in Selected(row) : row.seats[p].redraws <= 1
=============================================================================
