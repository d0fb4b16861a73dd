---------------------------- MODULE SeatsProofs ----------------------------
(***************************************************************************)
(* Who may sit in a workshop, and as what, for any number of players,      *)
(* accounts, keys, requests, characters, browsers, replicas and sockets:   *)
(* the models MCSeats puts side by side keep what it checks of them.  In   *)
(* order: a session's seats, cookies, limiters, sprites, and the two       *)
(* stores; what holds of a workshop's host is in WorkshopProofs.           *)
(***************************************************************************)
EXTENDS MCSeats, WorkshopProofs, Sequences

-----------------------------------------------------------------------------
(* Seats: keys and characters. *)

Place   == S!Character \cup {S!NoCharacter, S!NoSeat}
ASession == [phase : {"none", "Lobby", "Play", "deleted"}, seats : [SeatPlayer -> Place]]
Stored  == [owner : SeatAccount \cup {NoOne}, sprites : {"drawn", "placeholder"}, left : Nat]
CharacterTable   == [S!Id -> Stored \cup {S!NoRow, S!Deleted}]
Asked   == [op : {"none", "authorized"}, key : Key \cup {NoOne}, player : SeatPlayer \cup {NoOne}]
Drawing == [op : {"drawing"}, key : {NoOne}, player : SeatPlayer, owner : SeatAccount \cup {NoOne}]

(* A seat of p can be: its character's id is one of the n drawn, its       *)
(* sprites have been stored, and the character is p's account's or a       *)
(* starter.                                                                *)
SeatFits(p, c, chars, n) ==
  c \in S!Character =>
    /\ c.id <= n
    /\ c.sprites = "drawn" => c.of = c.id
    /\ c.sprites # "placeholder" => chars[c.of] # S!NoRow
    /\ chars[c.id] \in Stored => chars[c.id].owner \in {SeatAccountOf[p], NoOne}

(* No two seats have one character, and no account has two seats.          *)
Apart(seats) ==
  \A p, q \in SeatPlayer : p # q =>
    /\ seats[p] \in S!Character /\ seats[q] \in S!Character => seats[p].id # seats[q].id
    /\ seats[p] # S!NoSeat /\ seats[q] # S!NoSeat => SeatAccountOf[p] # SeatAccountOf[q]

SeatsSound(s, chars, n) ==
  /\ s \in ASession
  /\ \A p \in SeatPlayer : SeatFits(p, s.seats[p], chars, n)
  /\ Apart(s.seats)

NoRequest == \A r \in Request : request[r] = S!Idle

TablesInv ==
  /\ characters \in CharacterTable /\ ids \in S!Id
  /\ \A c \in S!Id : characters[c] \in Stored => c <= ids
  /\ keys \in [Key -> SeatPlayer \cup {NoOne}]
  /\ request \in [Request -> Asked \cup Drawing]
  /\ \A r \in Request : request[r].op = "drawing" =>
       request[r].owner \in {SeatAccountOf[request[r].player], NoOne}

CopiesInv ==
  /\ SeatsSound(row, characters, ids) /\ SeatsSound(copy, characters, ids)
  /\ SeatsSound(creating, characters, ids)
  /\ \A p \in SeatPlayer : row.seats[p] \in S!Character => row.seats[p].sprites # "drawn"

(* Nobody has a key before there is a workshop, or before it is answered.  *)
QuietInv ==
  /\ creating # S!NoSession => NoRequest
  /\ row = S!NoSession => NoRequest /\ \A k \in Key : keys[k] = NoOne

SeatsInv == TablesInv /\ CopiesInv /\ QuietInv

-----------------------------------------------------------------------------
(* A character, no character and no seat are three things.                 *)
LEMMA PlacesDiffer ==
  /\ S!NoCharacter \notin S!Character /\ S!NoSeat \notin S!Character /\ S!NoCharacter # S!NoSeat
  /\ \A c \in S!Character : c.id \in S!Id /\ c.of \in S!Id /\ c.id \in Nat
<1>1. \A c \in S!Character : c.id \in S!Id /\ c.of \in S!Id
  BY DEF S!Character
<1>2. S!NoCharacter.id = 0 /\ S!NoSeat.id = NoOne
  BY DEF S!NoCharacter, S!NoSeat
<1>3. 0 \notin S!Id /\ NoOne \notin S!Id /\ NoOne # 0 /\ S!Id \subseteq Nat
  BY SeatsAssumption DEF S!Id
<1> QED BY <1>1, <1>2, <1>3

(* So are a row, none and one deleted.                                     *)
LEMMA RowsDiffer ==
  S!NoRow \notin Stored /\ S!Deleted \notin Stored /\ S!NoRow # S!Deleted
<1>1. \A x \in Stored : x.sprites \in {"drawn", "placeholder"}
  BY DEF Stored
<1>2. S!NoRow.sprites = "none" /\ S!Deleted.sprites = "deleted"
  BY DEF S!NoRow, S!Deleted
<1> QED BY <1>1, <1>2

(* Who is seated, and who has a character.                                 *)
LEMMA SelectedHave ==
  ASSUME NEW s \in ASession
  PROVE  /\ S!Seated(s) = {p \in SeatPlayer : s.seats[p] # S!NoSeat}
         /\ S!Selected(s) = {p \in SeatPlayer : s.seats[p] \in S!Character}
BY PlacesDiffer DEF ASession, Place, S!Seated, S!Selected

(* The rows that are kept are those with an owner.                         *)
LEMMA KeptAreStored ==
  ASSUME characters \in CharacterTable
  PROVE  S!Kept = {c \in S!Id : characters[c] \in Stored}
BY RowsDiffer DEF S!Kept, CharacterTable

-----------------------------------------------------------------------------
(* Sessions without a player. *)
LEMMA EmptySound ==
  ASSUME NEW chars, NEW n, NEW f \in {"none", "Lobby", "Play", "deleted"}
  PROVE  SeatsSound([S!NoSession EXCEPT !.phase = f], chars, n)
<1> DEFINE s == [S!NoSession EXCEPT !.phase = f]
<1>1. s \in ASession /\ \A p \in SeatPlayer : s.seats[p] = S!NoSeat
  BY DEF S!NoSession, ASession, Place
<1> HIDE DEF s
<1>2. SeatsSound(s, chars, n)
  BY <1>1, PlacesDiffer DEF SeatsSound, SeatFits, Apart
<1> QED BY <1>2 DEF s

(* Nobody sits in no session.                                              *)
LEMMA NoSessionSound ==
  ASSUME NEW chars, NEW n
  PROVE  SeatsSound(S!NoSession, chars, n) /\ \A p \in SeatPlayer : S!NoSession.seats[p] = S!NoSeat
<1>1. S!NoSession \in ASession /\ \A p \in SeatPlayer : S!NoSession.seats[p] = S!NoSeat
  BY DEF S!NoSession, ASession, Place
<1> QED BY <1>1, PlacesDiffer DEF SeatsSound, SeatFits, Apart

(* What is saved of a session: the same seats, with references.            *)
LEMMA SanitizedSound ==
  ASSUME NEW chars, NEW n, NEW s, SeatsSound(s, chars, n)
  PROVE  /\ SeatsSound(S!Sanitized(s), chars, n)
         /\ S!Seated(S!Sanitized(s)) = S!Seated(s)
         /\ \A p \in SeatPlayer : S!Sanitized(s).seats[p] \in S!Character =>
              S!Sanitized(s).seats[p].sprites # "drawn"
<1> DEFINE t == S!Sanitized(s)
           ref(p) == [s.seats[p] EXCEPT !.sprites = "reference", !.of = s.seats[p].id]
           seats == [p \in SeatPlayer |->
                       IF p \in S!Selected(s) /\ s.seats[p].sprites = "drawn" THEN ref(p)
                       ELSE s.seats[p]]
<1>0. s \in ASession /\ Apart(s.seats) /\ \A p \in SeatPlayer : SeatFits(p, s.seats[p], chars, n)
  BY DEF SeatsSound
<1>1. \A p \in SeatPlayer : p \in S!Selected(s) <=> s.seats[p] \in S!Character
  BY <1>0, SelectedHave
<1>2. t.phase = s.phase /\ t = [phase |-> s.phase, seats |-> t.seats]
      /\ t.seats = [p \in SeatPlayer |->
           IF p \in S!Selected(s) /\ s.seats[p].sprites = "drawn" THEN ref(p) ELSE s.seats[p]]
  <2>1. t = [s EXCEPT !.seats = seats]
    BY DEF S!Sanitized
  <2> HIDE DEF seats, t
  <2>2. t = [phase |-> s.phase, seats |-> seats]
    BY <1>0, <2>1 DEF ASession
  <2> QED BY <2>2 DEF seats
<1>3. ASSUME NEW c \in S!Character
      PROVE  LET d == [c EXCEPT !.sprites = "reference", !.of = c.id] IN
             d \in S!Character /\ d.id = c.id /\ d.of = c.id /\ d.sprites = "reference"
  BY DEF S!Character
<1> HIDE DEF t
<1>4. ASSUME NEW p \in SeatPlayer
      PROVE  /\ t.seats[p] \in Place
             /\ t.seats[p] \in S!Character <=> s.seats[p] \in S!Character
             /\ s.seats[p] \notin S!Character => t.seats[p] = s.seats[p]
             /\ t.seats[p] \in S!Character => t.seats[p].sprites # "drawn"
                                            /\ t.seats[p].id = s.seats[p].id
             /\ SeatFits(p, t.seats[p], chars, n)
  <2>0. s.seats[p] \in Place /\ SeatFits(p, s.seats[p], chars, n)
    BY <1>0 DEF ASession
  <2>1. CASE s.seats[p] \in S!Character /\ s.seats[p].sprites = "drawn"
    <3>1. t.seats[p] = ref(p)
      BY <1>1, <1>2, <2>1
    <3>2. /\ t.seats[p] \in S!Character /\ t.seats[p].id = s.seats[p].id
          /\ t.seats[p].of = s.seats[p].id /\ t.seats[p].sprites = "reference"
      BY <1>3, <2>1, <3>1
    <3>3. SeatFits(p, t.seats[p], chars, n)
      BY <2>0, <2>1, <3>2 DEF SeatFits
    <3> QED BY <2>1, <3>2, <3>3 DEF Place
  <2>2. CASE ~(s.seats[p] \in S!Character /\ s.seats[p].sprites = "drawn")
    <3>1. t.seats[p] = s.seats[p]
      BY <1>1, <1>2, <2>2
    <3> QED BY <2>0, <2>2, <3>1
  <2> QED BY <2>1, <2>2
<1>5. t \in ASession
  <2>1. t.seats \in [SeatPlayer -> Place]
    BY <1>2, <1>4
  <2>2. s.phase \in {"none", "Lobby", "Play", "deleted"}
    BY <1>0 DEF ASession
  <2> QED BY <1>2, <2>1, <2>2 DEF ASession
<1>6. \A p \in SeatPlayer : t.seats[p] # S!NoSeat <=> s.seats[p] # S!NoSeat
  BY <1>4, PlacesDiffer
<1>7. Apart(t.seats)
  BY <1>0, <1>4, <1>6 DEF Apart
<1>8. S!Seated(t) = S!Seated(s)
  BY <1>6 DEF S!Seated
<1>9. SeatsSound(t, chars, n)
  BY <1>4, <1>5, <1>7 DEF SeatsSound
<1> QED BY <1>4, <1>8, <1>9 DEF t

(* A seat given or changed. *)
LEMMA ReseatedSound ==
  ASSUME NEW chars, NEW n, NEW s, SeatsSound(s, chars, n), NEW p \in SeatPlayer, NEW c \in Place,
         SeatFits(p, c, chars, n),
         \A q \in SeatPlayer \ {p} :
           c \in S!Character /\ s.seats[q] \in S!Character => s.seats[q].id # c.id,
         \A q \in SeatPlayer \ {p} : s.seats[q] # S!NoSeat => SeatAccountOf[q] # SeatAccountOf[p]
  PROVE  LET t == [s EXCEPT !.seats[p] = c] IN
         /\ SeatsSound(t, chars, n) /\ t.phase = s.phase /\ t.seats[p] = c
         /\ \A q \in SeatPlayer \ {p} : t.seats[q] = s.seats[q]
<1> DEFINE t == [s EXCEPT !.seats[p] = c]
<1>0. s \in ASession /\ Apart(s.seats) /\ \A q \in SeatPlayer : SeatFits(q, s.seats[q], chars, n)
  BY DEF SeatsSound
<1>1. t \in ASession /\ t.phase = s.phase /\ t.seats = [s.seats EXCEPT ![p] = c]
  BY <1>0 DEF ASession
<1> HIDE DEF t
<1>2. t.seats[p] = c /\ \A q \in SeatPlayer \ {p} : t.seats[q] = s.seats[q]
  BY <1>0, <1>1 DEF ASession
<1>3. \A q \in SeatPlayer : SeatFits(q, t.seats[q], chars, n)
  BY <1>0, <1>2
<1>4. Apart(t.seats)
  BY <1>0, <1>2 DEF Apart
<1>5. SeatsSound(t, chars, n)
  BY <1>1, <1>3, <1>4 DEF SeatsSound
<1> QED BY <1>1, <1>2, <1>5 DEF t

(* Nobody but p has the seat of p's account in a session p is in.          *)
LEMMA OthersElsewhere ==
  ASSUME NEW chars, NEW n, NEW s, SeatsSound(s, chars, n), NEW p \in S!Seated(s)
  PROVE  \A q \in SeatPlayer \ {p} : s.seats[q] # S!NoSeat => SeatAccountOf[q] # SeatAccountOf[p]
BY DEF SeatsSound, Apart, S!Seated

(* The rows grow: another is added, or one deleted.                        *)
Grows(chars, n, after, m) ==
  /\ n \in Nat /\ m \in Nat /\ n <= m
  /\ \A c \in S!Id : chars[c] # S!NoRow => after[c] # S!NoRow
  /\ \A c \in S!Id : c <= n /\ after[c] \in Stored =>
       chars[c] \in Stored /\ after[c].owner = chars[c].owner

(* A session whose rows grow stays sound.                                  *)
LEMMA GrowthSound ==
  ASSUME NEW chars, NEW n, NEW after, NEW m, Grows(chars, n, after, m),
         NEW s, SeatsSound(s, chars, n)
  PROVE  SeatsSound(s, after, m)
<1> SUFFICES ASSUME NEW p \in SeatPlayer, s.seats[p] \in S!Character
             PROVE  SeatFits(p, s.seats[p], after, m)
  BY DEF SeatsSound, SeatFits
<1>1. /\ s.seats[p].id \in S!Id /\ s.seats[p].of \in S!Id /\ s.seats[p].id \in Nat
  BY PlacesDiffer
<1>2. SeatFits(p, s.seats[p], chars, n)
  BY DEF SeatsSound
<1> QED BY <1>1, <1>2 DEF SeatFits, Grows

(* So does one while ids are drawn.                                        *)
LEMMA SoundLater ==
  ASSUME NEW chars, NEW n \in Nat, NEW m \in Nat, n <= m, NEW s, SeatsSound(s, chars, n)
  PROVE  SeatsSound(s, chars, m)
BY GrowthSound DEF Grows

(* A row is taken as a profile by its owner, or by anybody if a starter.   *)
LEMMA ProfileFits ==
  ASSUME TablesInv, NEW p \in SeatPlayer, NEW c \in S!Kept,
         characters[c].owner \in {SeatAccountOf[p], NoOne}
  PROVE  /\ S!Profile(c) \in S!Character /\ S!Profile(c).id = c
         /\ SeatFits(p, S!Profile(c), characters, ids)
<1>1. c \in S!Id /\ characters[c] \in Stored /\ c <= ids
  BY KeptAreStored DEF TablesInv
<1>2. characters[c].left \in Nat
  BY <1>1 DEF Stored
<1>3. S!Profile(c) \in S!Character /\ S!Profile(c).id = c /\ S!Profile(c).of = c
      /\ S!Profile(c).sprites = "reference"
  BY <1>1, <1>2 DEF S!Profile, S!Character
<1>4. SeatFits(p, S!Profile(c), characters, ids)
  BY <1>1, <1>3, RowsDiffer DEF SeatFits
<1> QED BY <1>3, <1>4

(* A row is leased under the next id.                                      *)
LEMMA LeasedFits ==
  ASSUME TablesInv, S!Fresh, NEW p \in SeatPlayer, NEW c \in S!Kept
  PROVE  /\ S!Leased(c) \in S!Character /\ S!Leased(c).id = ids + 1
         /\ SeatFits(p, S!Leased(c), characters, ids + 1)
<1>1. c \in S!Id /\ characters[c] \in Stored
  BY KeptAreStored DEF TablesInv
<1>2. ids \in Nat /\ ids + 1 \in S!Id
  BY SeatsAssumption DEF TablesInv, S!Fresh, S!Id
<1>3. characters[ids + 1] \notin Stored
  BY <1>2 DEF TablesInv
<1>4. S!Leased(c) \in S!Character /\ S!Leased(c).id = ids + 1 /\ S!Leased(c).of = c
      /\ S!Leased(c).sprites = "reference"
  BY <1>1, <1>2 DEF S!Leased, S!Character
<1>5. SeatFits(p, S!Leased(c), characters, ids + 1)
  BY <1>1, <1>2, <1>3, <1>4, RowsDiffer DEF SeatFits
<1> QED BY <1>4, <1>5

(* Another account's player does not have an account's own characters.     *)
LEMMA OwnIsNotTaken ==
  ASSUME TablesInv, NEW s, SeatsSound(s, characters, ids),
         NEW a \in SeatAccount, NEW c \in S!Owned(a),
         NEW q \in SeatPlayer, SeatAccountOf[q] # a, s.seats[q] \in S!Character
  PROVE  s.seats[q].id # c
<1>1. c \in S!Id /\ characters[c] \in Stored /\ characters[c].owner = a
  BY KeptAreStored DEF TablesInv, S!Owned
<1>2. characters[s.seats[q].id] \in Stored =>
        characters[s.seats[q].id].owner \in {SeatAccountOf[q], NoOne}
  BY DEF SeatsSound, SeatFits
<1> QED BY <1>1, <1>2, SeatsAssumption

(* The next id is nobody's.                                                *)
LEMMA NextIsNew ==
  ASSUME TablesInv, NEW s, SeatsSound(s, characters, ids), NEW q \in SeatPlayer,
         s.seats[q] \in S!Character
  PROVE  s.seats[q].id # ids + 1
<1>1. s.seats[q].id \in Nat /\ s.seats[q].id <= ids /\ ids \in Nat
  BY PlacesDiffer, SeatsAssumption DEF SeatsSound, SeatFits, TablesInv, S!Id
<1> QED BY <1>1

(* A seat for p in s: something that fits, and that nobody else has; ids   *)
(* are drawn for it.                                                       *)
Suits(p, c, s) ==
  /\ c \in Place /\ c # S!NoSeat
  /\ SeatFits(p, c, characters, ids')
  /\ \A q \in SeatPlayer \ {p} :
       c \in S!Character /\ s.seats[q] \in S!Character => s.seats[q].id # c.id
  /\ ids' \in S!Id /\ ids <= ids'

(* The characters of the others are excluded.                              *)
Excludes(excluded, p, s) ==
  \A q \in SeatPlayer \ {p} : s.seats[q] \in S!Character => s.seats[q].id \in excluded

(* A starter that is not excluded suits p.                                 *)
LEMMA StarterSuits ==
  ASSUME TablesInv, NEW s, SeatsSound(s, characters, ids), NEW p \in SeatPlayer,
         NEW excluded, Excludes(excluded, p, s),
         NEW d \in S!Starters(excluded), S!Draws(S!Profile(d))
  PROVE  Suits(p, S!Profile(d), s)
<1>1. d \in S!Kept /\ characters[d].owner = NoOne /\ d \notin excluded
  BY DEF S!Starters, S!Owned
<1>2. /\ S!Profile(d) \in S!Character /\ S!Profile(d).id = d
      /\ SeatFits(p, S!Profile(d), characters, ids)
  BY <1>1, ProfileFits
<1>3. ids \in S!Id /\ ids \in Nat /\ d \in Nat /\ d <= ids
  BY <1>1, KeptAreStored, SeatsAssumption DEF TablesInv, S!Id
<1>4. ids' = ids
  BY <1>2, <1>3 DEF S!Draws
<1> QED BY <1>1, <1>2, <1>3, <1>4, PlacesDiffer DEF Suits, Place, Excludes

(* So does a character of p's account, which sits nowhere else.            *)
LEMMA OwnedSuits ==
  ASSUME TablesInv, NEW s, SeatsSound(s, characters, ids), NEW p \in SeatPlayer,
         \A q \in SeatPlayer \ {p} : s.seats[q] # S!NoSeat => SeatAccountOf[q] # SeatAccountOf[p],
         NEW d \in S!Owned(SeatAccountOf[p]), S!Draws(S!Profile(d))
  PROVE  Suits(p, S!Profile(d), s)
<1>1. d \in S!Kept /\ characters[d].owner = SeatAccountOf[p] /\ SeatAccountOf[p] \in SeatAccount
  BY SeatsAssumption DEF S!Owned
<1>2. /\ S!Profile(d) \in S!Character /\ S!Profile(d).id = d
      /\ SeatFits(p, S!Profile(d), characters, ids)
  BY <1>1, ProfileFits
<1>3. ids \in S!Id /\ ids \in Nat /\ d \in Nat /\ d <= ids
  BY <1>1, KeptAreStored, SeatsAssumption DEF TablesInv, S!Id
<1>4. ids' = ids
  BY <1>2, <1>3 DEF S!Draws
<1>5. \A q \in SeatPlayer \ {p} : s.seats[q] \in S!Character => s.seats[q].id # d
  BY <1>1, PlacesDiffer, OwnIsNotTaken
<1> QED BY <1>2, <1>3, <1>4, <1>5, PlacesDiffer DEF Suits, Place

(* So does one leased under the next id.                                   *)
LEMMA LeaseSuits ==
  ASSUME TablesInv, S!Fresh, NEW s, SeatsSound(s, characters, ids), NEW p \in SeatPlayer,
         NEW d \in S!Kept, S!Draws(S!Leased(d))
  PROVE  Suits(p, S!Leased(d), s)
<1>1. S!Leased(d) \in S!Character /\ S!Leased(d).id = ids + 1
      /\ SeatFits(p, S!Leased(d), characters, ids + 1)
  BY LeasedFits
<1>2. ids \in Nat /\ ids + 1 \in S!Id
  BY SeatsAssumption DEF TablesInv, S!Fresh, S!Id
<1>3. ids' = ids + 1
  BY <1>1, PlacesDiffer DEF S!Draws
<1>4. \A q \in SeatPlayer \ {p} : s.seats[q] \in S!Character => s.seats[q].id # ids + 1
  BY NextIsNew
<1> QED BY <1>1, <1>2, <1>3, <1>4, PlacesDiffer DEF Suits, Place

(* And so whatever pick_random_starter_profile picks,                      *)
LEMMA PickSuits ==
  ASSUME TablesInv, S!Fresh, NEW s, SeatsSound(s, characters, ids), NEW p \in SeatPlayer,
         NEW excluded, Excludes(excluded, p, s), NEW c \in S!Picks(excluded), S!Draws(c)
  PROVE  Suits(p, c, s)
<1>1. CASE S!Reusable(excluded) # {}
  <2>1. PICK d \in S!Reusable(excluded) : c = S!Leased(d)
    BY <1>1 DEF S!Picks
  <2> QED BY <2>1, LeaseSuits DEF S!Reusable
<1>2. CASE S!Reusable(excluded) = {}
  <2>1. PICK d \in S!Starters(excluded) : c = S!Profile(d)
    BY <1>2 DEF S!Picks
  <2> QED BY <2>1, StarterSuits
<1> QED BY <1>1, <1>2

(* or resolve_character_for_session resolves.                              *)
LEMMA ResolvedSuits ==
  ASSUME TablesInv, S!Fresh, NEW s, SeatsSound(s, characters, ids), NEW p \in SeatPlayer,
         \A q \in SeatPlayer \ {p} : s.seats[q] # S!NoSeat => SeatAccountOf[q] # SeatAccountOf[p],
         NEW excluded, Excludes(excluded, p, s),
         NEW c \in S!Resolved(SeatAccountOf[p], excluded), S!Draws(c)
  PROVE  Suits(p, c, s)
<1>1. CASE c = S!NoCharacter
  <2>1. ids' = ids /\ ids \in S!Id /\ ids \in Nat
    BY <1>1, SeatsAssumption DEF S!Draws, TablesInv, S!Id
  <2> QED BY <1>1, <2>1, PlacesDiffer DEF Suits, Place, SeatFits
<1>2. ASSUME NEW d \in S!Owned(SeatAccountOf[p]), c = S!Profile(d) PROVE Suits(p, c, s)
  BY <1>2, OwnedSuits
<1>3. ASSUME NEW d \in S!Starters(excluded), c = S!Profile(d) PROVE Suits(p, c, s)
  BY <1>3, StarterSuits
<1>4. CASE c \in S!Picks(excluded)
  BY <1>4, PickSuits
<1> QED BY <1>1, <1>2, <1>3, <1>4 DEF S!Resolved, S!Named

(* The others in a session are excluded by their ids.                      *)
LEMMA OthersExcluded ==
  ASSUME NEW s \in ASession, NEW p \in SeatPlayer
  PROVE  Excludes(S!IdsOf(s, S!Seated(s) \ {p}), p, s)
BY SelectedHave, PlacesDiffer DEF Excludes, S!IdsOf

-----------------------------------------------------------------------------
(* No workshop, no key and no request at first.                            *)
LEMMA InitSeated == S!Init => SeatsInv
<1> SUFFICES ASSUME S!Init PROVE SeatsInv
  OBVIOUS
<1>1. ids = Given /\ Given \in S!Id /\ S!Id \subseteq Nat
  BY SeatsAssumption DEF S!Init, S!Id
<1>2. characters \in CharacterTable /\ \A c \in S!Id : characters[c] \in Stored => c <= ids
  BY <1>1, SeatsAssumption, RowsDiffer DEF S!Init, CharacterTable, Stored, S!Id
<1>3. keys \in [Key -> SeatPlayer \cup {NoOne}] /\ \A k \in Key : keys[k] = NoOne
  BY DEF S!Init
<1>4. NoRequest /\ request \in [Request -> Asked \cup Drawing]
      /\ \A r \in Request : request[r].op # "drawing"
  BY DEF S!Init, NoRequest, Asked, S!Idle
<1>5. TablesInv
  BY <1>1, <1>2, <1>3, <1>4 DEF TablesInv
<1>6. CopiesInv
  BY NoSessionSound, PlacesDiffer DEF S!Init, CopiesInv
<1> QED BY <1>3, <1>4, <1>5, <1>6 DEF SeatsInv, QuietInv

(* Saving and refreshing keep what is sound.                               *)
LEMMA SaveSound ==
  ASSUME NEW s, S!Save(s), NEW chars, NEW n, SeatsSound(s, chars, n)
  PROVE  /\ SeatsSound(row', chars, n) /\ SeatsSound(copy', chars, n)
         /\ \A p \in SeatPlayer : row'.seats[p] \in S!Character => row'.seats[p].sprites # "drawn"
         /\ S!Seated(s) # {} => row' # S!NoSession
<1>1. row' = S!Sanitized(s) /\ copy' = s
  BY DEF S!Save
<1>2. S!Seated(s) # {} => S!Sanitized(s) # S!NoSession
  <2>1. S!Seated(S!NoSession) = {}
    BY NoSessionSound DEF S!Seated
  <2> QED BY <2>1, SanitizedSound
<1> QED BY <1>1, <1>2, SanitizedSound

(* The copy is put back.                                                   *)
LEMMA RefreshSound ==
  ASSUME S!Refresh, NEW chars, NEW n, SeatsSound(row, chars, n)
  PROVE  row' = row /\ SeatsSound(copy', chars, n)
BY NoSessionSound DEF S!Refresh

(* The request of r is over, the others are as they were.                  *)
LEMMA DoneKept ==
  ASSUME TablesInv, NEW r \in Request, S!Done(r)
  PROVE  /\ request' \in [Request -> Asked \cup Drawing]
         /\ \A x \in Request : request'[x].op = "drawing" =>
              request'[x].owner \in {SeatAccountOf[request'[x].player], NoOne}
         /\ NoRequest => NoRequest'
<1>1. S!Idle \in Asked /\ S!Idle.op # "drawing"
  BY DEF S!Idle, Asked
<1>2. request \in [Request -> Asked \cup Drawing] /\ request' = [request EXCEPT ![r] = S!Idle]
  BY DEF TablesInv, S!Done
<1>3. request' \in [Request -> Asked \cup Drawing]
      /\ \A x \in Request : request'[x] = IF x = r THEN S!Idle ELSE request[x]
  BY <1>1, <1>2
<1> QED BY <1>1, <1>3 DEF TablesInv, NoRequest

(* The copies go on being sound when ids are drawn.                        *)
LEMMA CopiesLater ==
  ASSUME TablesInv, CopiesInv, characters' = characters, ids' \in S!Id, ids <= ids'
  PROVE  /\ SeatsSound(row, characters', ids') /\ SeatsSound(copy, characters', ids')
         /\ SeatsSound(creating, characters', ids')
<1>1. ids \in Nat /\ ids' \in Nat
  BY SeatsAssumption DEF TablesInv, S!Id
<1>2. ASSUME NEW s, SeatsSound(s, characters, ids) PROVE SeatsSound(s, characters, ids')
  BY <1>1, <1>2, SoundLater
<1> QED BY <1>2 DEF CopiesInv

(* A seat is saved with a key for it, or not.                              *)
LEMMA SeatSound ==
  ASSUME SeatsInv, ids' \in S!Id, ids <= ids', characters' = characters, creating' = creating,
         NEW s, SeatsSound(s, characters, ids'), NEW p \in S!Seated(s), NEW revoked,
         S!Seat(p, s, revoked)
  PROVE  /\ CopiesInv' /\ keys' \in [Key -> SeatPlayer \cup {NoOne}]
         /\ row' = S!NoSession => row = S!NoSession /\ keys' = keys
<1>0. TablesInv /\ CopiesInv /\ p \in SeatPlayer
  BY DEF SeatsInv, S!Seated
<1>1. SeatsSound(row, characters', ids') /\ SeatsSound(creating, characters', ids')
  BY <1>0, CopiesLater
<1>2. CASE S!Save(s) /\ keys' = [k \in Key |->
          IF k = S!NewKey THEN p ELSE IF k \in revoked THEN NoOne ELSE keys[k]]
  <2>1. keys' \in [Key -> SeatPlayer \cup {NoOne}]
    BY <1>0, <1>2 DEF TablesInv
  <2>2. /\ SeatsSound(row', characters', ids') /\ SeatsSound(copy', characters', ids')
        /\ \A q \in SeatPlayer : row'.seats[q] \in S!Character => row'.seats[q].sprites # "drawn"
        /\ row' # S!NoSession
    BY <1>2, SaveSound
  <2> QED BY <1>1, <2>1, <2>2 DEF CopiesInv
<1>3. CASE S!Refresh /\ keys' = keys
  <2>1. row' = row /\ SeatsSound(copy', characters', ids')
    BY <1>1, <1>3, RefreshSound
  <2> QED BY <1>0, <1>1, <1>3, <2>1 DEF CopiesInv, TablesInv
<1> QED BY <1>2, <1>3 DEF S!Seat

-----------------------------------------------------------------------------
(* The steps, one by one. *)

(* The creator sits in an empty lobby.                                     *)
LEMMA CreateSeated == ASSUME SeatsInv, NEW p \in SeatPlayer, S!Create(p) PROVE SeatsInv'
<1>0. TablesInv /\ CopiesInv /\ NoRequest /\ row = S!NoSession
  BY DEF SeatsInv, QuietInv, S!Create
<1>1. PICK c \in S!Resolved(SeatAccountOf[p], {}) :
        LET s == [phase |-> "Lobby", seats |-> [S!NoSession.seats EXCEPT ![p] = c]] IN
        row' = S!Sanitized(s) /\ creating' = s /\ S!Draws(c)
  BY DEF S!Create
<1> DEFINE lobby == [S!NoSession EXCEPT !.phase = "Lobby"]
           s == [phase |-> "Lobby", seats |-> [S!NoSession.seats EXCEPT ![p] = c]]
<1>2. s = [lobby EXCEPT !.seats[p] = c]
  <2> DEFINE seats == S!NoSession.seats
             base == [phase |-> "Lobby", seats |-> seats]
  <2>1. lobby = base
    BY DEF S!NoSession
  <2> HIDE DEF seats
  <2>2. [base EXCEPT !.seats[p] = c] = [phase |-> "Lobby", seats |-> [seats EXCEPT ![p] = c]]
    OBVIOUS
  <2> HIDE DEF base, lobby
  <2> QED BY <2>1, <2>2 DEF seats
<1>3. SeatsSound(lobby, characters, ids) /\ \A q \in SeatPlayer : lobby.seats[q] = S!NoSeat
  BY EmptySound, NoSessionSound DEF S!NoSession
<1> HIDE DEF lobby
<1>4. Excludes({}, p, lobby)
  BY <1>3, PlacesDiffer DEF Excludes
<1>5. Suits(p, c, lobby)
  BY <1>0, <1>1, <1>3, <1>4, ResolvedSuits DEF S!Create
<1>6. characters' = characters /\ copy' = copy /\ request' = request
      /\ keys' = [keys EXCEPT ![S!NewKey] = p]
  BY DEF S!Create
<1>7. ids \in Nat /\ ids' \in S!Id /\ ids' \in Nat /\ ids <= ids'
  BY <1>0, <1>5, SeatsAssumption DEF Suits, TablesInv, S!Id
<1>8. SeatsSound(lobby, characters, ids')
  BY <1>3, <1>7, SoundLater
<1>9. SeatsSound(s, characters, ids') /\ s.seats[p] = c
  BY <1>2, <1>3, <1>5, <1>8, ReseatedSound DEF Suits
<1> HIDE DEF s
<1>10. p \in S!Seated(s)
  BY <1>5, <1>9 DEF Suits, S!Seated
<1>11. /\ SeatsSound(row', characters', ids') /\ SeatsSound(creating', characters', ids')
       /\ \A q \in SeatPlayer : row'.seats[q] \in S!Character => row'.seats[q].sprites # "drawn"
       /\ row' # S!NoSession
  BY <1>1, <1>6, <1>9, <1>10, SanitizedSound, NoSessionSound DEF S!Seated, s
<1>12. SeatsSound(copy', characters', ids')
  BY <1>0, <1>6, <1>7, CopiesLater
<1>13. TablesInv'
  <2>1. \A d \in S!Id : characters'[d] \in Stored => d <= ids'
    BY <1>0, <1>6, <1>7 DEF TablesInv, S!Id
  <2> QED BY <1>0, <1>6, <1>7, <2>1 DEF TablesInv
<1>14. QuietInv'
  BY <1>0, <1>6, <1>11 DEF QuietInv, NoRequest
<1> QED BY <1>11, <1>12, <1>13, <1>14 DEF SeatsInv, CopiesInv

(* Rows and ids unchanged, requests too: copies are put in place.          *)
LEMMA CreatedSeated == ASSUME SeatsInv, S!Created PROVE SeatsInv'
BY NoSessionSound DEF S!Created, SeatsInv, TablesInv, CopiesInv, QuietInv, NoRequest, S!tables

(* An empty lobby is created.                                              *)
LEMMA CreateLobbySeated == ASSUME SeatsInv, S!CreateLobby PROVE SeatsInv'
<1> DEFINE lobby == [S!NoSession EXCEPT !.phase = "Lobby"]
<1>1. row' = lobby /\ creating' = lobby /\ NoRequest
  BY DEF S!CreateLobby, SeatsInv, QuietInv
<1>2. SeatsSound(lobby, characters, ids) /\ \A q \in SeatPlayer : lobby.seats[q] = S!NoSeat
  BY EmptySound, NoSessionSound DEF S!NoSession
<1>3. lobby # S!NoSession
  BY DEF S!NoSession
<1> HIDE DEF lobby
<1> QED BY <1>1, <1>2, <1>3, PlacesDiffer
        DEF S!CreateLobby, SeatsInv, TablesInv, CopiesInv, QuietInv, NoRequest

(* A lobby nobody came to is deleted.                                      *)
LEMMA DeleteSeated == ASSUME SeatsInv, S!Delete PROVE SeatsInv'
<1> DEFINE gone == [S!NoSession EXCEPT !.phase = "deleted"]
<1>1. row' = gone /\ copy' = S!NoSession
  BY DEF S!Delete
<1>2. SeatsSound(gone, characters, ids) /\ \A q \in SeatPlayer : gone.seats[q] = S!NoSeat
  BY EmptySound, NoSessionSound DEF S!NoSession
<1>3. gone # S!NoSession
  BY DEF S!NoSession
<1> HIDE DEF gone
<1> QED BY <1>1, <1>2, <1>3, PlacesDiffer, NoSessionSound
        DEF S!Delete, SeatsInv, TablesInv, CopiesInv, QuietInv, NoRequest

(* The copy is loaded.                                                     *)
LEMMA LoadSeated == ASSUME SeatsInv, S!Load PROVE SeatsInv'
<1>1. row' = row /\ SeatsSound(copy', characters, ids)
  BY RefreshSound DEF S!Load, SeatsInv, CopiesInv
<1> QED BY <1>1 DEF S!Load, SeatsInv, TablesInv, CopiesInv, QuietInv, NoRequest

(* After a seat is saved, requests being as they were.                     *)
LEMMA SeatedAgain ==
  ASSUME SeatsInv, CopiesInv', keys' \in [Key -> SeatPlayer \cup {NoOne}],
         row' = S!NoSession => row = S!NoSession /\ keys' = keys,
         characters' = characters, ids' \in S!Id, ids <= ids', creating' = creating,
         request' = request
  PROVE  SeatsInv'
<1>1. TablesInv'
  <2>1. ids \in Nat /\ ids' \in Nat /\ S!Id \subseteq Nat
    BY SeatsAssumption DEF SeatsInv, TablesInv, S!Id
  <2>2. \A d \in S!Id : characters'[d] \in Stored => d <= ids'
    BY <2>1 DEF SeatsInv, TablesInv
  <2> QED BY <2>1, <2>2 DEF SeatsInv, TablesInv
<1>2. QuietInv'
  BY DEF SeatsInv, QuietInv, NoRequest
<1> QED BY <1>1, <1>2 DEF SeatsInv

(* An account that has no seat joins.                                      *)
LEMMA JoinSeated == ASSUME SeatsInv, NEW p \in SeatPlayer, S!Join(p) PROVE SeatsInv'
<1>0. TablesInv /\ CopiesInv /\ SeatsSound(row, characters, ids) /\ row \in ASession
  BY DEF SeatsInv, CopiesInv, SeatsSound
<1>1. PICK c \in S!Resolved(SeatAccountOf[p], S!IdsOf(row, S!Seated(row))) :
        S!Seat(p, [row EXCEPT !.seats[p] = c], {}) /\ S!Draws(c)
  BY DEF S!Join, S!Reloaded
<1>2. \A q \in SeatPlayer \ {p} : row.seats[q] # S!NoSeat => SeatAccountOf[q] # SeatAccountOf[p]
  BY DEF S!Join, S!Reloaded, S!SeatOf, S!Seated
<1>3. Excludes(S!IdsOf(row, S!Seated(row)), p, row)
  BY <1>0, SelectedHave, PlacesDiffer DEF Excludes, S!IdsOf
<1>4. Suits(p, c, row)
  BY <1>0, <1>1, <1>2, <1>3, ResolvedSuits DEF S!Join
<1>5. characters' = characters /\ creating' = creating /\ request' = request
      /\ ids' \in S!Id /\ ids <= ids'
  BY <1>4 DEF S!Join, Suits
<1>6. SeatsSound(row, characters, ids')
  BY <1>0, <1>5, CopiesLater
<1> DEFINE s == [row EXCEPT !.seats[p] = c]
<1>7. SeatsSound(s, characters, ids') /\ s.seats[p] = c
  BY <1>2, <1>4, <1>6, ReseatedSound DEF Suits
<1> HIDE DEF s
<1>8. p \in S!Seated(s)
  BY <1>4, <1>7 DEF Suits, S!Seated
<1>9. /\ CopiesInv' /\ keys' \in [Key -> SeatPlayer \cup {NoOne}]
      /\ row' = S!NoSession => row = S!NoSession /\ keys' = keys
  BY <1>1, <1>5, <1>7, <1>8, SeatSound DEF s
<1> QED BY <1>5, <1>9, SeatedAgain

(* One that has a seat joins again; its placeholder may be replaced.       *)
LEMMA RestoreSeated == ASSUME SeatsInv, NEW a \in SeatAccount, S!Restore(a) PROVE SeatsInv'
<1>0. TablesInv /\ CopiesInv /\ SeatsSound(row, characters, ids) /\ row \in ASession
  BY DEF SeatsInv, CopiesInv, SeatsSound
<1>1. PICK p \in S!SeatOf(row, a) :
        LET others  == S!IdsOf(row, S!Seated(row) \ {p})
            mine    == row.seats[p]
            upgrade == row.phase = "Lobby" /\ mine # S!NoCharacter
                       /\ mine.sprites = "placeholder" /\ S!Picks(others) # {}
        IN  \E c \in IF upgrade THEN S!Picks(others) ELSE {mine} :
              S!Seat(p, [row EXCEPT !.seats[p] = c], {}) /\ S!Draws(c)
  BY DEF S!Restore, S!Reloaded
<1> DEFINE others == S!IdsOf(row, S!Seated(row) \ {p})
<1>2. PICK c \in S!Picks(others) \cup {row.seats[p]} :
        S!Seat(p, [row EXCEPT !.seats[p] = c], {}) /\ S!Draws(c)
  BY <1>1
<1>3. p \in SeatPlayer /\ p \in S!Seated(row) /\ row.seats[p] # S!NoSeat
  BY DEF S!SeatOf, S!Seated
<1>4. \A q \in SeatPlayer \ {p} : row.seats[q] # S!NoSeat => SeatAccountOf[q] # SeatAccountOf[p]
  BY <1>0, <1>3, OthersElsewhere
<1>5. Suits(p, c, row)
  <2>1. CASE c \in S!Picks(others)
    <3>1. Excludes(others, p, row)
      BY <1>0, <1>3, OthersExcluded
    <3> HIDE DEF others
    <3> QED BY <1>0, <1>2, <1>3, <2>1, <3>1, PickSuits DEF S!Restore
  <2>2. CASE c = row.seats[p]
    <3>1. c \in Place /\ SeatFits(p, c, characters, ids) /\ Apart(row.seats)
      BY <1>0, <1>3, <2>2 DEF SeatsSound, ASession
    <3>2. ids \in Nat /\ ids \in S!Id
      BY <1>0, SeatsAssumption DEF TablesInv, S!Id
    <3>3. ids' = ids
      BY <1>2, <1>3, <2>2, <3>1, <3>2, PlacesDiffer DEF S!Draws, SeatFits, Place
    <3> QED BY <1>3, <2>2, <3>1, <3>2, <3>3 DEF Suits, Apart
  <2> QED BY <1>2, <2>1, <2>2
<1>6. characters' = characters /\ creating' = creating /\ request' = request
      /\ ids' \in S!Id /\ ids <= ids'
  BY <1>5 DEF S!Restore, Suits
<1>7. SeatsSound(row, characters, ids')
  BY <1>0, <1>6, CopiesLater
<1> DEFINE s == [row EXCEPT !.seats[p] = c]
<1>8. SeatsSound(s, characters, ids') /\ s.seats[p] = c
  BY <1>3, <1>4, <1>5, <1>7, ReseatedSound DEF Suits
<1> HIDE DEF s
<1>9. p \in S!Seated(s)
  BY <1>3, <1>5, <1>8 DEF Suits, S!Seated
<1>10. /\ CopiesInv' /\ keys' \in [Key -> SeatPlayer \cup {NoOne}]
       /\ row' = S!NoSession => row = S!NoSession /\ keys' = keys
  BY <1>2, <1>6, <1>8, <1>9, SeatSound DEF s
<1> QED BY <1>6, <1>10, SeatedAgain

(* A key is shown: only once a workshop has answered with it.              *)
LEMMA AuthorizeSeated ==
  ASSUME SeatsInv, NEW r \in Request, NEW k \in Key, S!Authorize(r, k) PROVE SeatsInv'
<1> DEFINE asked == [op |-> "authorized", key |-> k, player |-> keys[k]]
<1>1. request' = [request EXCEPT ![r] = asked] /\ keys[k] # NoOne /\ creating = S!NoSession
  BY DEF S!Authorize
<1>2. asked \in Asked /\ asked.op # "drawing"
  BY DEF Asked, SeatsInv, TablesInv
<1> HIDE DEF asked
<1>3. request' \in [Request -> Asked \cup Drawing]
      /\ \A x \in Request : request'[x] = IF x = r THEN asked ELSE request[x]
  BY <1>1, <1>2 DEF SeatsInv, TablesInv
<1>4. row # S!NoSession
  BY <1>1 DEF SeatsInv, QuietInv
<1>5. TablesInv'
  BY <1>2, <1>3 DEF S!Authorize, S!tables, SeatsInv, TablesInv
<1> QED BY <1>1, <1>4, <1>5 DEF S!Authorize, S!tables, SeatsInv, CopiesInv, QuietInv

(* A key goes.                                                             *)
LEMMA ExpireSeated == ASSUME SeatsInv, NEW k \in Key, S!Expire(k) PROVE SeatsInv'
<1>1. keys' = [keys EXCEPT ![k] = NoOne]
  BY DEF S!Expire
<1>2. keys' \in [Key -> SeatPlayer \cup {NoOne}]
      /\ \A x \in Key : keys'[x] \in {keys[x], NoOne}
  BY <1>1 DEF SeatsInv, TablesInv
<1> QED BY <1>2 DEF S!Expire, SeatsInv, TablesInv, CopiesInv, QuietInv, NoRequest

(* A request fails.                                                        *)
LEMMA RefuseSeated == ASSUME SeatsInv, NEW r \in Request, S!Refuse(r) PROVE SeatsInv'
<1>1. TablesInv /\ S!Done(r)
  BY DEF SeatsInv, S!Refuse
<1> QED BY <1>1, DoneKept DEF S!Refuse, S!tables, SeatsInv, TablesInv, CopiesInv, QuietInv

(* While a request is under way there is a workshop, and it is answered.   *)
LEMMA UnderWay ==
  ASSUME SeatsInv, NEW r \in Request, request[r].op \in {"authorized", "drawing"}
  PROVE  row # S!NoSession /\ creating = S!NoSession
<1>1. ~NoRequest
  BY DEF NoRequest, S!Idle
<1> QED BY <1>1 DEF SeatsInv, QuietInv

(* A key replaces the one that was shown.                                  *)
LEMMA ReconnectSeated == ASSUME SeatsInv, NEW r \in Request, S!Reconnect(r) PROVE SeatsInv'
<1>0. TablesInv /\ CopiesInv /\ SeatsSound(row, characters, ids) /\ ids \in S!Id /\ ids <= ids
  BY SeatsAssumption DEF SeatsInv, TablesInv, CopiesInv, S!Id
<1>1. /\ request[r].op = "authorized" /\ S!Done(r)
      /\ request[r].player \in S!Seated(row)
      /\ S!Seat(request[r].player, row, {request[r].key})
      /\ characters' = characters /\ ids' = ids /\ creating' = creating
  BY DEF S!Reconnect, S!Reloaded
<1>2. row # S!NoSession /\ creating = S!NoSession
  BY <1>1, UnderWay
<1>3. /\ CopiesInv' /\ keys' \in [Key -> SeatPlayer \cup {NoOne}]
      /\ row' = S!NoSession => row = S!NoSession /\ keys' = keys
  BY <1>0, <1>1, SeatSound
<1>4. TablesInv'
  BY <1>0, <1>1, <1>3, DoneKept DEF TablesInv
<1> QED BY <1>1, <1>2, <1>3, <1>4 DEF SeatsInv, QuietInv

-----------------------------------------------------------------------------
(* Commands. *)

(* The copy a command works on.                                            *)
LEMMA CopySound == ASSUME SeatsInv PROVE SeatsSound(S!Copy, characters, ids) /\ S!Copy \in ASession
BY DEF SeatsInv, CopiesInv, S!Copy, SeatsSound

(* A command saves a sound session that is not empty, or fails.            *)
LEMMA CommandSeated ==
  ASSUME SeatsInv, NEW r \in Request, NEW s, SeatsSound(s, characters, ids), S!Seated(s) # {},
         S!Command(r, s)
  PROVE  SeatsInv'
<1>0. TablesInv /\ CopiesInv
  BY DEF SeatsInv
<1>1. /\ request[r].op = "authorized" /\ S!Done(r)
      /\ keys' = keys /\ characters' = characters /\ ids' = ids /\ creating' = creating
  BY DEF S!Command
<1>2. row # S!NoSession /\ creating = S!NoSession
  BY <1>1, UnderWay
<1>3. CASE S!Save(s)
  <2>1. /\ SeatsSound(row', characters, ids) /\ SeatsSound(copy', characters, ids)
        /\ \A p \in SeatPlayer : row'.seats[p] \in S!Character => row'.seats[p].sprites # "drawn"
        /\ row' # S!NoSession
    BY <1>3, SaveSound
  <2>2. TablesInv' /\ CopiesInv'
    BY <1>0, <1>1, <2>1, DoneKept DEF TablesInv, CopiesInv
  <2> QED BY <1>1, <1>2, <2>1, <2>2 DEF SeatsInv, QuietInv
<1>4. CASE copy' = S!Copy /\ row' = row
  <2>1. TablesInv' /\ CopiesInv'
    BY <1>0, <1>1, <1>4, DoneKept, CopySound DEF TablesInv, CopiesInv
  <2> QED BY <1>1, <1>2, <1>4, <2>1 DEF SeatsInv, QuietInv
<1> QED BY <1>3, <1>4 DEF S!Command

(* A starter nobody else has, or a character of the player's account.      *)
LEMMA SelectSeated ==
  ASSUME SeatsInv, NEW r \in Request, S!SelectCharacter(r) PROVE SeatsInv'
<1> DEFINE p == request[r].player
<1>0. TablesInv /\ SeatsSound(S!Copy, characters, ids) /\ S!Copy \in ASession
  BY CopySound DEF SeatsInv
<1>1. PICK c \in S!NotTaken(p) :
        /\ characters[c].owner \in {SeatAccountOf[p], NoOne}
        /\ S!Command(r, [S!Copy EXCEPT !.seats[p] = S!Profile(c)])
  BY DEF S!SelectCharacter
<1>2. p \in S!Seated(S!Copy) /\ p \in SeatPlayer
  BY <1>1 DEF S!Command, S!Seated
<1> HIDE DEF p
<1>3. /\ c \in S!Kept
      /\ characters[c].owner = NoOne => c \notin S!IdsOf(S!Copy, S!Seated(S!Copy) \ {p})
  BY <1>1 DEF S!NotTaken
<1>4. /\ S!Profile(c) \in S!Character /\ S!Profile(c).id = c
      /\ SeatFits(p, S!Profile(c), characters, ids)
  BY <1>0, <1>1, <1>2, <1>3, ProfileFits
<1>5. \A q \in SeatPlayer \ {p} : S!Copy.seats[q] # S!NoSeat => SeatAccountOf[q] # SeatAccountOf[p]
  BY <1>0, <1>2, OthersElsewhere
<1>6. ASSUME NEW q \in SeatPlayer \ {p}, S!Copy.seats[q] \in S!Character
      PROVE  S!Copy.seats[q].id # c
  <2>1. CASE characters[c].owner = NoOne
    <3>1. Excludes(S!IdsOf(S!Copy, S!Seated(S!Copy) \ {p}), p, S!Copy)
      BY <1>0, <1>2, OthersExcluded
    <3> QED BY <1>3, <1>6, <2>1, <3>1 DEF Excludes
  <2>2. CASE characters[c].owner = SeatAccountOf[p]
    <3>1. c \in S!Owned(SeatAccountOf[p]) /\ SeatAccountOf[p] \in SeatAccount
      BY <1>2, <1>3, <2>2, SeatsAssumption DEF S!Owned
    <3>2. SeatAccountOf[q] # SeatAccountOf[p]
      BY <1>5, <1>6, PlacesDiffer
    <3> QED BY <1>0, <1>6, <3>1, <3>2, OwnIsNotTaken
  <2> QED BY <1>1, <2>1, <2>2
<1> DEFINE s == [S!Copy EXCEPT !.seats[p] = S!Profile(c)]
<1>7. SeatsSound(s, characters, ids) /\ s.seats[p] = S!Profile(c)
  BY <1>0, <1>2, <1>4, <1>5, <1>6, ReseatedSound DEF Place
<1> HIDE DEF s
<1>8. p \in S!Seated(s)
  BY <1>2, <1>4, <1>7, PlacesDiffer DEF S!Seated
<1>9. S!Command(r, s)
  BY <1>1 DEF s, p
<1> QED BY <1>7, <1>8, <1>9, CommandSeated

(* The game starts with the seats as they are.                             *)
LEMMA StartSeated == ASSUME SeatsInv, NEW r \in Request, S!StartPhase1(r) PROVE SeatsInv'
<1> DEFINE s == [S!Copy EXCEPT !.phase = "Play"]
<1>1. SeatsSound(S!Copy, characters, ids) /\ S!Copy \in ASession
  BY CopySound
<1>2. s \in ASession /\ s.seats = S!Copy.seats
  BY <1>1 DEF ASession
<1>3. S!Command(r, s)
  BY DEF S!StartPhase1
<1> HIDE DEF s
<1>4. SeatsSound(s, characters, ids)
  BY <1>1, <1>2 DEF SeatsSound
<1>5. S!Seated(s) # {}
  BY <1>2, <1>3 DEF S!Command, S!Seated
<1> QED BY <1>3, <1>4, <1>5, CommandSeated

(* It starts over with one seat.                                           *)
LEMMA ResetSeated == ASSUME SeatsInv, NEW r \in Request, S!ResetGame(r) PROVE SeatsInv'
<1> DEFINE p == request[r].player
           seats == [q \in SeatPlayer |-> IF q = p THEN S!Copy.seats[q] ELSE S!NoSeat]
           s == [phase |-> "Lobby", seats |-> seats]
<1>1. SeatsSound(S!Copy, characters, ids) /\ S!Copy \in ASession
  BY CopySound
<1>2. S!Command(r, s)
  BY DEF S!ResetGame
<1>3. p \in S!Seated(S!Copy)
  BY <1>2 DEF S!Command
<1>4. s = [phase |-> "Lobby", seats |-> seats]
  OBVIOUS
<1>5. seats \in [SeatPlayer -> Place]
  BY <1>1 DEF ASession, Place
<1>6. \A q \in SeatPlayer : seats[q] = IF q = p THEN S!Copy.seats[q] ELSE S!NoSeat
  OBVIOUS
<1> HIDE DEF s, seats, p
<1>7. s \in ASession /\ s.seats = seats
  BY <1>4, <1>5 DEF ASession
<1>8. SeatsSound(s, characters, ids)
  BY <1>1, <1>6, <1>7, PlacesDiffer DEF SeatsSound, SeatFits, Apart
<1>9. p \in S!Seated(s)
  BY <1>3, <1>6, <1>7 DEF S!Seated
<1> QED BY <1>2, <1>8, <1>9, CommandSeated

-----------------------------------------------------------------------------
(* Redraws. *)

(* A redraw starts: the row it will write is the owner's, or a starter.    *)
LEMMA StartRedrawSeated ==
  ASSUME SeatsInv, NEW r \in Request, S!StartRedraw(r) PROVE SeatsInv'
<1> DEFINE p == request[r].player
           c == row.seats[p]
           owner == IF c # S!NoCharacter /\ c.id \in S!Kept THEN characters[c.id].owner ELSE NoOne
           asked == [op |-> "drawing", key |-> NoOne, player |-> p, owner |-> owner]
<1>0. TablesInv /\ CopiesInv /\ SeatsSound(row, characters, ids) /\ row \in ASession
  BY DEF SeatsInv, CopiesInv, SeatsSound
<1>1. /\ request[r].op = "authorized" /\ p \in S!Seated(row) /\ S!Refresh
      /\ request' = [request EXCEPT ![r] = asked]
      /\ keys' = keys /\ characters' = characters /\ ids' = ids /\ creating' = creating
  BY DEF S!StartRedraw, S!Reloaded
<1>2. p \in SeatPlayer /\ c # S!NoSeat /\ c \in Place
  BY <1>0, <1>1 DEF S!Seated, ASession
<1>3. owner \in {SeatAccountOf[p], NoOne}
  <2>1. CASE c # S!NoCharacter /\ c.id \in S!Kept
    <3>1. c \in S!Character /\ characters[c.id] \in Stored
      BY <1>0, <1>2, <2>1, KeptAreStored DEF Place, TablesInv
    <3>2. characters[c.id].owner \in {SeatAccountOf[p], NoOne}
      BY <1>0, <1>2, <3>1 DEF SeatsSound, SeatFits
    <3> QED BY <2>1, <3>2
  <2>2. CASE ~(c # S!NoCharacter /\ c.id \in S!Kept)
    BY <2>2
  <2> QED BY <2>1, <2>2
<1>4. SeatAccountOf[p] \in SeatAccount
  BY <1>2, SeatsAssumption
<1> HIDE DEF owner, c, p
<1>5. asked \in Drawing /\ asked.op = "drawing" /\ asked.player = p /\ asked.owner = owner
  BY <1>2, <1>3, <1>4 DEF Drawing
<1> HIDE DEF asked
<1>6. request' \in [Request -> Asked \cup Drawing]
      /\ \A x \in Request : request'[x] = IF x = r THEN asked ELSE request[x]
  BY <1>0, <1>1, <1>5 DEF TablesInv
<1>7. row # S!NoSession /\ creating = S!NoSession
  BY <1>1, UnderWay
<1>8. row' = row /\ SeatsSound(copy', characters, ids)
  BY <1>0, <1>1, RefreshSound
<1>9. TablesInv'
  BY <1>0, <1>1, <1>3, <1>5, <1>6 DEF TablesInv
<1> QED BY <1>0, <1>1, <1>7, <1>8, <1>9 DEF SeatsInv, CopiesInv, QuietInv

RedrawArgs(c, id, drawn, owner) ==
  /\ c \in S!Character \cup {S!NoCharacter} /\ id \in S!Id
  /\ drawn \in {"drawn", "placeholder"} /\ owner \in SeatAccount \cup {NoOne}
RedrawFits(given, id, owner) ==
  /\ given \in S!Character /\ given.id = id /\ given.of = id
  /\ S!Row(given, owner) \in Stored /\ S!Row(given, owner).owner = owner

(* What a redraw makes of a seat, and the row it writes for it.            *)
LEMMA RedrawnTyped ==
  \A c, id, drawn, owner :
    RedrawArgs(c, id, drawn, owner) => RedrawFits(S!Redrawn(c, id, drawn), id, owner)
<1> SUFFICES ASSUME NEW c \in S!Character \cup {S!NoCharacter}, NEW id \in S!Id,
                    NEW drawn \in {"drawn", "placeholder"},
                    NEW owner \in SeatAccount \cup {NoOne},
                    NEW given, given = S!Redrawn(c, id, drawn)
             PROVE  RedrawFits(given, id, owner)
  BY DEF RedrawArgs
<1> DEFINE left == IF c = S!NoCharacter THEN 1 ELSE IF c.left = 0 THEN 0 ELSE c.left - 1
           redraws == IF c = S!NoCharacter THEN 0 ELSE c.redraws + 1
           new == [id |-> id, sprites |-> drawn, of |-> id, left |-> left, redraws |-> redraws]
<1>1. given = new
  BY DEF S!Redrawn
<1>2. left \in Nat /\ redraws \in Nat
  BY PlacesDiffer DEF S!Character
<1> HIDE DEF left, redraws
<1>3. /\ new \in S!Character /\ new.id = id /\ new.of = id
      /\ new.sprites \in {"drawn", "placeholder"} /\ new.left \in Nat
  BY <1>2 DEF S!Character
<1> HIDE DEF new
<1>4. S!Row(new, owner) \in Stored /\ S!Row(new, owner).owner = owner
  BY <1>3 DEF S!Row, Stored
<1> QED BY <1>1, <1>3, <1>4 DEF RedrawFits

(* The row of id is written while p has that character, or it is a new one.*)
LEMMA RowSound ==
  ASSUME TablesInv, NEW s, SeatsSound(s, characters, ids), NEW p \in SeatPlayer,
         NEW id \in S!Id, NEW m \in S!Id, ids <= m, id <= m,
         \A q \in SeatPlayer \ {p} : s.seats[q] \in S!Character => s.seats[q].id # id,
         NEW written \in Stored, written.owner \in {SeatAccountOf[p], NoOne}
  PROVE  SeatsSound(s, [characters EXCEPT ![id] = written], m)
<1> DEFINE after == [characters EXCEPT ![id] = written]
<1>1. \A d \in S!Id : after[d] = IF d = id THEN written ELSE characters[d]
  BY DEF TablesInv, CharacterTable
<1> HIDE DEF after
<1>2. ASSUME NEW q \in SeatPlayer, s.seats[q] \in S!Character
      PROVE  SeatFits(q, s.seats[q], after, m)
  <2>1. SeatFits(q, s.seats[q], characters, ids)
    BY DEF SeatsSound
  <2>2. /\ s.seats[q].id \in S!Id /\ s.seats[q].of \in S!Id /\ s.seats[q].id \in Nat
        /\ ids \in Nat /\ m \in Nat
    BY <1>2, PlacesDiffer, SeatsAssumption DEF TablesInv, S!Id
  <2>3. s.seats[q].id <= m
    BY <1>2, <2>1, <2>2 DEF SeatFits
  <2>4. s.seats[q].sprites # "placeholder" => after[s.seats[q].of] # S!NoRow
    BY <1>1, <1>2, <2>1, <2>2, RowsDiffer DEF SeatFits
  <2>5. after[s.seats[q].id] \in Stored => after[s.seats[q].id].owner \in {SeatAccountOf[q], NoOne}
    BY <1>1, <1>2, <2>1, <2>2 DEF SeatFits
  <2> QED BY <2>1, <2>3, <2>4, <2>5, <1>2 DEF SeatFits
<1>3. SeatsSound(s, after, m)
  BY <1>2 DEF SeatsSound, SeatFits
<1> QED BY <1>3 DEF after

(* A redraw ends, after whatever has happened to the seat since it began.  *)
(* Its row is written before the session, and the session may fail.        *)
LEMMA FinishRedrawSeated ==
  ASSUME SeatsInv, NEW r \in Request, NEW drawn \in {"drawn", "placeholder"},
         S!FinishRedraw(r, drawn)
  PROVE  SeatsInv'
<1> DEFINE p == request[r].player
           c == row.seats[p]
           id == IF S!InPlace(c) THEN c.id ELSE ids + 1
           m == IF S!InPlace(c) THEN ids ELSE ids + 1
           owner == request[r].owner
           new == S!Redrawn(c, id, drawn)
           after == [characters EXCEPT ![id] = S!Row(new, owner)]
           s == [row EXCEPT !.seats[p] = new]
<1>0. TablesInv /\ CopiesInv /\ SeatsSound(row, characters, ids) /\ row \in ASession
  BY DEF SeatsInv, CopiesInv, SeatsSound
<1>1. /\ request[r].op = "drawing" /\ p \in S!Seated(row) /\ S!Fresh /\ S!Done(r)
      /\ ids' = m /\ keys' = keys /\ creating' = creating
      /\ S!CharacterFirst(s, new, owner)
  BY DEF S!FinishRedraw, S!Reloaded
<1>2. p \in SeatPlayer /\ c # S!NoSeat /\ c \in Place
  BY <1>0, <1>1 DEF S!Seated, ASession
<1>3. owner \in {SeatAccountOf[p], NoOne} /\ owner \in SeatAccount \cup {NoOne}
  BY <1>0, <1>1, <1>2, SeatsAssumption DEF TablesInv
<1>4. ids \in S!Id /\ ids \in Nat /\ ids + 1 \in S!Id
  BY <1>0, <1>1, SeatsAssumption DEF TablesInv, S!Fresh, S!Id
<1>5. c \in S!Character \cup {S!NoCharacter}
  BY <1>2 DEF Place
<1>6. S!InPlace(c) => c \in S!Character /\ c.id \in S!Id /\ c.id \in Nat /\ c.id <= ids
  BY <1>0, <1>2, <1>5, PlacesDiffer DEF S!InPlace, SeatsSound, SeatFits
<1>7. id \in S!Id /\ m \in S!Id /\ m \in Nat /\ ids <= m /\ id <= m
  BY <1>4, <1>6
<1>8. \A q \in SeatPlayer \ {p} : row.seats[q] \in S!Character => row.seats[q].id # id
  <2>1. CASE S!InPlace(c)
    <3>1. id = c.id /\ Apart(row.seats)
      BY <1>0, <2>1 DEF SeatsSound
    <3> QED BY <1>2, <1>6, <2>1, <3>1 DEF Apart
  <2>2. CASE ~S!InPlace(c)
    BY <1>0, <2>2, NextIsNew
  <2> QED BY <2>1, <2>2
<1>9. \A q \in SeatPlayer \ {p} : row.seats[q] # S!NoSeat => SeatAccountOf[q] # SeatAccountOf[p]
  BY <1>0, <1>1, OthersElsewhere
<1> HIDE DEF p, c, id, m, owner
<1>10. /\ new \in S!Character /\ new.id = id /\ new.of = id
       /\ S!Row(new, owner) \in Stored /\ S!Row(new, owner).owner = owner
  <2>1. RedrawArgs(c, id, drawn, owner)
    BY <1>3, <1>5, <1>7 DEF RedrawArgs
  <2>2. RedrawFits(S!Redrawn(c, id, drawn), id, owner)
    BY <2>1, RedrawnTyped, Zenon
  <2> QED BY <2>2 DEF RedrawFits
<1> HIDE DEF new
<1>11. SeatsSound(row, after, m)
  BY <1>0, <1>2, <1>3, <1>7, <1>8, <1>10, RowSound
<1>12. /\ after \in CharacterTable /\ after[id] \in Stored /\ after[id].owner = owner
       /\ \A d \in S!Id : after[d] \in Stored => d <= m
  <2>1. /\ after \in CharacterTable
        /\ \A d \in S!Id : after[d] = IF d = id THEN S!Row(new, owner) ELSE characters[d]
    BY <1>0, <1>7, <1>10 DEF TablesInv, CharacterTable
  <2>2. \A d \in S!Id : characters[d] \in Stored => d <= m
    BY <1>0, <1>4, <1>7 DEF TablesInv, S!Id
  <2> HIDE DEF after
  <2> QED BY <1>7, <1>10, <2>1, <2>2
<1> HIDE DEF after
<1>13. SeatFits(p, new, after, m)
  BY <1>3, <1>7, <1>10, <1>12, RowsDiffer DEF SeatFits
<1>14. SeatsSound(s, after, m) /\ s.seats[p] = new
  BY <1>2, <1>8, <1>9, <1>10, <1>11, <1>13, ReseatedSound DEF Place
<1> HIDE DEF s
<1>15. p \in S!Seated(s)
  BY <1>2, <1>10, <1>14, PlacesDiffer DEF S!Seated
<1>16. row # S!NoSession /\ creating = S!NoSession
  BY <1>1, UnderWay
<1>17. CASE S!Save(s) /\ characters' = after
  <2>1. /\ SeatsSound(row', after, m) /\ SeatsSound(copy', after, m) /\ row' # S!NoSession
        /\ \A q \in SeatPlayer : row'.seats[q] \in S!Character => row'.seats[q].sprites # "drawn"
    BY <1>14, <1>15, <1>17, SaveSound
  <2>2. CopiesInv'
    BY <1>1, <1>16, <1>17, <2>1, NoSessionSound DEF CopiesInv
  <2>3. TablesInv'
    BY <1>0, <1>1, <1>7, <1>12, <1>17, DoneKept DEF TablesInv
  <2> QED BY <1>1, <1>16, <2>1, <2>2, <2>3 DEF SeatsInv, QuietInv
<1>18. CASE S!Refresh /\ characters' \in {characters, after}
  <2>1. SeatsSound(row, characters', m)
    <3>1. SeatsSound(row, characters, m)
      BY <1>0, <1>4, <1>7, SoundLater
    <3> QED BY <1>11, <1>18, <3>1
  <2>2. row' = row /\ SeatsSound(copy', characters', m)
    BY <1>18, <2>1, RefreshSound
  <2>3. CopiesInv'
    BY <1>0, <1>1, <1>16, <2>1, <2>2, NoSessionSound DEF CopiesInv
  <2>4. characters' \in CharacterTable /\ \A d \in S!Id : characters'[d] \in Stored => d <= m
    <3>1. \A d \in S!Id : characters[d] \in Stored => d <= m
      BY <1>0, <1>4, <1>7 DEF TablesInv, S!Id
    <3> QED BY <1>0, <1>12, <1>18, <3>1 DEF TablesInv
  <2>5. TablesInv'
    BY <1>0, <1>1, <1>7, <2>4, DoneKept DEF TablesInv
  <2> QED BY <1>1, <1>16, <2>2, <2>3, <2>5 DEF SeatsInv, QuietInv
<1>19. \/ S!Save(s) /\ characters' = after
       \/ S!Refresh /\ characters' \in {characters, after}
  BY <1>1, <1>10 DEF S!CharacterFirst, after
<1> QED BY <1>17, <1>18, <1>19

-----------------------------------------------------------------------------
(* Characters come and go. *)

(* The rows grow, sessions, keys and requests being as they were.          *)
LEMMA GrownSeated ==
  ASSUME SeatsInv, Grows(characters, ids, characters', ids'),
         characters' \in CharacterTable, ids' \in S!Id,
         \A c \in S!Id : characters'[c] \in Stored => c <= ids',
         UNCHANGED <<row, keys, copy, creating, request>>
  PROVE  SeatsInv'
<1>1. ASSUME NEW s, SeatsSound(s, characters, ids) PROVE SeatsSound(s, characters', ids')
  BY <1>1, GrowthSound
<1>2. CopiesInv'
  BY <1>1 DEF SeatsInv, CopiesInv
<1> QED BY <1>2 DEF SeatsInv, TablesInv, QuietInv, NoRequest

(* An account has another character.                                       *)
LEMMA CreateCharacterSeated ==
  ASSUME SeatsInv, NEW a \in SeatAccount, S!CreateCharacter(a) PROVE SeatsInv'
<1> DEFINE written == [owner |-> a, sprites |-> "drawn", left |-> 1]
<1>0. ids \in Nat /\ ids + 1 \in S!Id /\ characters \in CharacterTable
      /\ \A c \in S!Id : c \in Nat /\ (characters[c] \in Stored => c <= ids)
  BY SeatsAssumption DEF SeatsInv, TablesInv, S!CreateCharacter, S!Fresh, S!Id
<1>1. ids' = ids + 1 /\ characters' = [characters EXCEPT ![ids + 1] = written]
      /\ UNCHANGED <<row, keys, copy, creating, request>>
  BY DEF S!CreateCharacter
<1>2. written \in Stored
  BY DEF Stored
<1> HIDE DEF written
<1>3. characters' \in CharacterTable
      /\ \A c \in S!Id : characters'[c] = IF c = ids + 1 THEN written ELSE characters[c]
  BY <1>0, <1>1, <1>2 DEF CharacterTable
<1>4. Grows(characters, ids, characters', ids')
  BY <1>0, <1>1, <1>2, <1>3, RowsDiffer DEF Grows
<1>5. \A c \in S!Id : characters'[c] \in Stored => c <= ids'
  BY <1>0, <1>1, <1>3
<1> QED BY <1>0, <1>1, <1>3, <1>4, <1>5, GrownSeated

(* It has one less.                                                        *)
LEMMA DeleteCharacterSeated ==
  ASSUME SeatsInv, NEW a \in SeatAccount, S!DeleteCharacter(a) PROVE SeatsInv'
<1>0. ids \in Nat /\ ids \in S!Id /\ characters \in CharacterTable
      /\ \A c \in S!Id : characters[c] \in Stored => c <= ids
  BY SeatsAssumption DEF SeatsInv, TablesInv, S!Id
<1>1. PICK c \in S!Owned(a) : characters' = [characters EXCEPT ![c] = S!Deleted]
  BY DEF S!DeleteCharacter
<1>2. ids' = ids /\ UNCHANGED <<row, keys, copy, creating, request>>
  BY DEF S!DeleteCharacter
<1>3. c \in S!Id
  BY DEF S!Owned, S!Kept
<1>4. characters' \in CharacterTable
      /\ \A d \in S!Id : characters'[d] = IF d = c THEN S!Deleted ELSE characters[d]
  BY <1>0, <1>1, <1>3 DEF CharacterTable
<1>5. Grows(characters, ids, characters', ids')
  BY <1>0, <1>2, <1>4, RowsDiffer DEF Grows
<1>6. \A d \in S!Id : characters'[d] \in Stored => d <= ids'
  BY <1>0, <1>2, <1>4, RowsDiffer
<1> QED BY <1>0, <1>2, <1>4, <1>5, <1>6, GrownSeated

-----------------------------------------------------------------------------
(* Every step keeps the invariant. *)
LEMMA SeatsInvKept == ASSUME SeatsInv, [S!Next]_S!vars PROVE SeatsInv'
<1>1. CASE UNCHANGED S!vars
  BY <1>1 DEF S!vars, S!tables, SeatsInv, TablesInv, CopiesInv, QuietInv, NoRequest
<1>2. CASE S!CreateLobby \/ S!Created \/ S!Delete \/ S!Load
  BY <1>2, CreateLobbySeated, CreatedSeated, DeleteSeated, LoadSeated
<1>3. ASSUME NEW p \in SeatPlayer, S!Create(p) \/ S!Join(p) PROVE SeatsInv'
  BY <1>3, CreateSeated, JoinSeated
<1>4. ASSUME NEW a \in SeatAccount, S!Restore(a) \/ S!CreateCharacter(a) \/ S!DeleteCharacter(a)
      PROVE  SeatsInv'
  BY <1>4, RestoreSeated, CreateCharacterSeated, DeleteCharacterSeated
<1>5. ASSUME NEW k \in Key, S!Expire(k) PROVE SeatsInv'
  BY <1>5, ExpireSeated
<1>6. ASSUME NEW r \in Request, NEW k \in Key, S!Authorize(r, k) PROVE SeatsInv'
  BY <1>6, AuthorizeSeated
<1>7. ASSUME NEW r \in Request, S!Refuse(r) \/ S!Reconnect(r) PROVE SeatsInv'
  BY <1>7, RefuseSeated, ReconnectSeated
<1>8. ASSUME NEW r \in Request, S!SelectCharacter(r) \/ S!StartPhase1(r) \/ S!ResetGame(r)
      PROVE  SeatsInv'
  BY <1>8, SelectSeated, StartSeated, ResetSeated
<1>9. ASSUME NEW r \in Request, S!StartRedraw(r) PROVE SeatsInv'
  BY <1>9, StartRedrawSeated
<1>10. ASSUME NEW r \in Request, NEW drawn \in {"drawn", "placeholder"}, S!FinishRedraw(r, drawn)
       PROVE  SeatsInv'
  BY <1>10, FinishRedrawSeated
<1> QED BY <1>1, <1>2, <1>3, <1>4, <1>5, <1>6, <1>7, <1>8, <1>9, <1>10 DEF S!Next

(* What the run checks of the seats.                                       *)
LEMMA SeatsInvTyped == SeatsInv => S!TypeOK
<1> SUFFICES ASSUME SeatsInv PROVE S!TypeOK
  OBVIOUS
<1>1. ASSUME NEW s, SeatsSound(s, characters, ids) PROVE S!IsSession(s)
  <2>1. s \in ASession
    BY <1>1 DEF SeatsSound
  <2> QED BY <2>1, SelectedHave DEF S!IsSession, ASession
<1>2. S!IsSession(row) /\ S!IsSession(copy) /\ S!IsSession(creating)
  BY <1>1 DEF SeatsInv, CopiesInv
<1>3. \A p \in S!Selected(row) : row.seats[p].sprites # "drawn"
  BY SelectedHave DEF SeatsInv, CopiesInv, SeatsSound
<1>4. \A c \in S!Kept : c <= ids
  BY KeptAreStored DEF SeatsInv, TablesInv
<1> QED BY <1>2, <1>3, <1>4 DEF S!TypeOK, SeatsInv, TablesInv

(* No two seats have one character.                                        *)
LEMMA SeatsInvApart == SeatsInv => S!NobodySharesCharacter
<1> SUFFICES ASSUME SeatsInv, NEW s \in {row, copy} PROVE
      \A p, q \in S!Selected(s) : p # q => s.seats[p].id # s.seats[q].id
  BY DEF S!NobodySharesCharacter
<1>1. SeatsSound(s, characters, ids) /\ s \in ASession
  BY DEF SeatsInv, CopiesInv, SeatsSound
<1> QED BY <1>1, SelectedHave DEF SeatsSound, Apart

(* Sprites that are referred to were stored.                               *)
LEMMA SeatsInvSprites == SeatsInv => S!SpritesExist
<1> SUFFICES ASSUME SeatsInv, NEW s \in {row, copy}, NEW p \in S!Selected(s),
                    s.seats[p].sprites # "placeholder"
             PROVE  characters[s.seats[p].of] # S!NoRow
  BY DEF S!SpritesExist
<1>1. SeatsSound(s, characters, ids) /\ s \in ASession
  BY DEF SeatsInv, CopiesInv, SeatsSound
<1>2. p \in SeatPlayer /\ s.seats[p] \in S!Character
  BY <1>1, SelectedHave
<1> QED BY <1>1, <1>2 DEF SeatsSound, SeatFits

-----------------------------------------------------------------------------
(* Accounts: cookies. *)

SignIn == [stage : {"idle", "login", "signup", "accepted"}, name : A!AccountName \cup {NoOne},
           password : Password \cup {NoOne}, row : Password \cup {NoOne}]

AccountTypes ==
  /\ accounts \in [A!AccountName -> Password \cup {NoOne}]
  /\ cookie \in [Browser -> A!AccountName \cup {NoOne}]
  /\ signin \in [Browser -> SignIn]
  /\ typed \in [Browser -> SUBSET (A!AccountName \X Password)]

Owns(b, a) == accounts[a] # NoOne /\ <<a, accounts[a]>> \in typed[b]

(* A request still to be decided holds what was typed, and a row that has  *)
(* not changed since; one that was accepted names its own account.         *)
RequestHonest(b) ==
  LET s == signin[b] IN
  /\ s.stage # "idle" => s.name \in A!AccountName
  /\ s.stage \in {"login", "signup"} => <<s.name, s.password>> \in typed[b]
  /\ s.stage = "login" => s.row # NoOne /\ s.row = accounts[s.name]
  /\ s.stage = "accepted" => Owns(b, s.name)

RequestsHonest == \A b \in Browser : RequestHonest(b)
CookiesOwned   == \A b \in Browser : cookie[b] \in A!AccountName => Owns(b, cookie[b])
HonestInv == AccountTypes /\ RequestsHonest /\ CookiesOwned

(* An account keeps its password, and what was typed stays typed.          *)
Grown == /\ \A a \in A!AccountName : accounts[a] # NoOne => accounts'[a] = accounts[a]
         /\ \A b \in Browser : typed[b] \subseteq typed'[b]

-----------------------------------------------------------------------------
(* The name of an account is one typed in lower case.                      *)
LEMMA NamesAccount == \A n \in Name : Lower[n] \in A!AccountName
BY DEF A!AccountName

(* There is no account and no cookie at first.                             *)
LEMMA InitHonest == ASSUME NoOne \notin A!AccountName PROVE A!Init => HonestInv
BY DEF A!Init, HonestInv, AccountTypes, RequestsHonest, RequestHonest, CookiesOwned, SignIn, A!Idle

(* Every step keeps the types.                                             *)
LEMMA AccountTypesKept == ASSUME HonestInv, A!Next PROVE AccountTypes'
<1> USE DEF HonestInv, AccountTypes, SignIn, A!Idle
<1>1. ASSUME NEW b \in Browser, NEW n \in Name, NEW p \in Password, A!LookUp(b, n, p)
      PROVE  AccountTypes'
  <2>1. Lower[n] \in A!AccountName
    BY NamesAccount
  <2>2. typed' = [typed EXCEPT ![b] = @ \cup {<<Lower[n], p>>}]
        /\ accounts' = accounts /\ cookie' = cookie
    BY <1>1 DEF A!LookUp
  <2>3. typed' \in [Browser -> SUBSET (A!AccountName \X Password)]
    BY <2>1, <2>2
  <2>4. signin' = signin \/ \E l \in {"login", "signup"} :
          signin' = [signin EXCEPT ![b] = [stage |-> l, name |-> Lower[n], password |-> p,
                                           row |-> accounts[Lower[n]]]]
    BY <1>1 DEF A!LookUp
  <2>5. accounts[Lower[n]] \in Password \cup {NoOne}
    BY <2>1
  <2>6. signin' \in [Browser -> SignIn]
    BY <2>1, <2>4, <2>5
  <2> QED BY <2>2, <2>3, <2>6
<1>2. ASSUME NEW b \in Browser, A!Verify(b) PROVE AccountTypes'
  BY <1>2 DEF A!Verify, A!Step, A!GiveUp
<1>3. ASSUME NEW b \in Browser, A!Insert(b) PROVE AccountTypes'
  <2>1. signin[b].password \in Password \cup {NoOne}
    OBVIOUS
  <2> QED BY <1>3, <2>1 DEF A!Insert, A!Step, A!GiveUp
<1>4. ASSUME NEW b \in Browser, A!SetCookie(b) PROVE AccountTypes'
  BY <1>4 DEF A!SetCookie, A!GiveUp
<1>5. ASSUME NEW b \in Browser, A!Break(b) PROVE AccountTypes'
  BY <1>5 DEF A!Break, A!GiveUp
<1>6. ASSUME NEW b \in Browser, A!Logout(b) PROVE AccountTypes'
  BY <1>6 DEF A!Logout
<1>7. ASSUME NEW b \in Browser, A!CreateCharacter(b) PROVE AccountTypes'
  BY <1>7 DEF A!CreateCharacter
<1>8. CASE A!TimePasses
  BY <1>8 DEF A!TimePasses
<1> QED BY <1>1, <1>2, <1>3, <1>4, <1>5, <1>6, <1>7, <1>8 DEF A!Next

(* No step changes the password of an account, or forgets what was typed.  *)
LEMMA OnlyGrows == ASSUME HonestInv, A!Next PROVE Grown
<1> USE DEF HonestInv, AccountTypes, Grown
<1>1. ASSUME NEW b \in Browser, NEW n \in Name, NEW p \in Password, A!LookUp(b, n, p) PROVE Grown
  BY <1>1 DEF A!LookUp
<1>2. ASSUME NEW b \in Browser, A!Insert(b) PROVE Grown
  BY <1>2 DEF A!Insert
<1>3. ASSUME NEW b \in Browser,
             A!Verify(b) \/ A!SetCookie(b) \/ A!Break(b) \/ A!Logout(b) \/ A!CreateCharacter(b)
      PROVE  Grown
  BY <1>3 DEF A!Verify, A!SetCookie, A!Break, A!Logout, A!CreateCharacter
<1>4. CASE A!TimePasses
  BY <1>4 DEF A!TimePasses
<1> QED BY <1>1, <1>2, <1>3, <1>4 DEF A!Next

(* Whoever owns an account goes on owning it.                              *)
LEMMA OwnershipLasts ==
  ASSUME Grown, NEW b \in Browser, NEW a \in A!AccountName, Owns(b, a)
  PROVE  Owns(b, a)'
BY DEF Grown, Owns

(* A request that a step leaves alone stays honest.                        *)
LEMMA HonestyLasts ==
  ASSUME HonestInv, Grown, NEW b \in Browser, signin'[b] = signin[b]
  PROVE  RequestHonest(b)'
<1>1. RequestHonest(b)
  BY DEF HonestInv, RequestsHonest
<1>2. signin[b].stage # "idle" => signin[b].name \in A!AccountName
  BY <1>1 DEF RequestHonest
<1>3. signin[b].stage \in {"login", "signup"} =>
        <<signin[b].name, signin[b].password>> \in typed'[b]
  BY <1>1 DEF RequestHonest, Grown
<1>4. signin[b].stage = "login" => signin[b].row # NoOne
                                   /\ signin[b].row = accounts'[signin[b].name]
  BY <1>1, <1>2 DEF RequestHonest, Grown
<1>5. signin[b].stage = "accepted" => Owns(b, signin[b].name)'
  BY <1>1, <1>2, OwnershipLasts DEF RequestHonest, Owns
<1> QED BY <1>2, <1>3, <1>4, <1>5 DEF RequestHonest, Owns

(* One that has ended has nothing to be honest about.                      *)
LEMMA IdleHonest ==
  ASSUME AccountTypes, NEW b \in Browser, A!GiveUp(b) PROVE RequestHonest(b)'
BY DEF AccountTypes, A!GiveUp, A!Idle, RequestHonest

(* The steps of the request itself.                                        *)
LEMMA OwnRequestHonest ==
  ASSUME NoOne \notin Password, HonestInv, Grown, NEW b \in Browser,
         \/ \E n \in Name, p \in Password : A!LookUp(b, n, p)
         \/ A!Verify(b) \/ A!Insert(b) \/ A!SetCookie(b) \/ A!Break(b)
  PROVE  RequestHonest(b)'
<1>0. AccountTypes /\ RequestHonest(b)
  BY DEF HonestInv, RequestsHonest
<1>1. ASSUME NEW n \in Name, NEW p \in Password, A!LookUp(b, n, p) PROVE RequestHonest(b)'
  <2> DEFINE a == Lower[n]
             l == IF accounts[a] = NoOne THEN "signup" ELSE "login"
             s == [stage |-> l, name |-> a, password |-> p, row |-> accounts[a]]
  <2>1. a \in A!AccountName
    BY NamesAccount
  <2>2. signin' = signin \/ signin' = [signin EXCEPT ![b] = s]
    BY <1>1 DEF A!LookUp
  <2>3. <<a, p>> \in typed'[b] /\ accounts' = accounts
    BY <1>0, <1>1 DEF A!LookUp, AccountTypes
  <2>4. CASE signin' = signin
    BY <2>4, HonestyLasts
  <2>5. CASE signin' = [signin EXCEPT ![b] = s]
    <3>1. signin'[b] = s
      BY <1>0, <2>5 DEF AccountTypes
    <3>2. s.stage = "login" => s.row # NoOne
      OBVIOUS
    <3> QED BY <2>1, <2>3, <3>1, <3>2 DEF RequestHonest
  <2> QED BY <2>2, <2>4, <2>5
<1>2. CASE A!Verify(b)
  <2>1. CASE signin[b].password = signin[b].row
    <3>1. signin'[b].stage = "accepted" /\ signin'[b].name = signin[b].name
      BY <1>0, <1>2, <2>1 DEF A!Verify, A!Step, AccountTypes, SignIn
    <3>2. signin[b].name \in A!AccountName /\ Owns(b, signin[b].name)
      BY <1>0, <1>2, <2>1 DEF A!Verify, RequestHonest, Owns
    <3> QED BY <3>1, <3>2, OwnershipLasts DEF RequestHonest, Owns
  <2>2. CASE signin[b].password # signin[b].row
    BY <1>0, <1>2, <2>2, IdleHonest DEF A!Verify
  <2> QED BY <2>1, <2>2
<1>3. CASE A!Insert(b)
  <2>1. signin[b].name \in A!AccountName /\ <<signin[b].name, signin[b].password>> \in typed[b]
    BY <1>0, <1>3 DEF A!Insert, RequestHonest
  <2>2. CASE accounts[signin[b].name] = NoOne
    <3>1. signin'[b].stage = "accepted" /\ signin'[b].name = signin[b].name
      BY <1>0, <1>3, <2>2 DEF A!Insert, A!Step, AccountTypes, SignIn
    <3>2. accounts'[signin[b].name] = signin[b].password /\ typed' = typed
      BY <1>0, <1>3, <2>1, <2>2 DEF A!Insert, AccountTypes
    <3>3. signin[b].password # NoOne
      BY <1>0, <2>1 DEF AccountTypes
    <3> QED BY <2>1, <3>1, <3>2, <3>3 DEF RequestHonest, Owns
  <2>3. CASE accounts[signin[b].name] # NoOne
    BY <1>0, <1>3, <2>3, IdleHonest DEF A!Insert
  <2> QED BY <2>2, <2>3
<1>4. CASE A!SetCookie(b) \/ A!Break(b)
  BY <1>0, <1>4, IdleHonest DEF A!SetCookie, A!Break
<1> QED BY <1>1, <1>2, <1>3, <1>4

(* Every step keeps requests honest, its own and the others'.              *)
LEMMA HonestyKept == ASSUME NoOne \notin Password, HonestInv, A!Next, Grown PROVE RequestsHonest'
<1> SUFFICES ASSUME NEW c \in Browser PROVE RequestHonest(c)'
  BY DEF RequestsHonest
<1>1. ASSUME NEW b \in Browser,
             \/ \E n \in Name, p \in Password : A!LookUp(b, n, p)
             \/ A!Verify(b) \/ A!Insert(b) \/ A!SetCookie(b) \/ A!Break(b)
      PROVE  RequestHonest(c)'
  <2>1. CASE c = b
    BY <1>1, <2>1, OwnRequestHonest
  <2>2. CASE c # b
    <3>1. signin'[c] = signin[c]
      BY <1>1, <2>2 DEF HonestInv, AccountTypes, A!LookUp, A!Verify, A!Insert, A!SetCookie, A!Break,
                         A!Step, A!GiveUp
    <3> QED BY <3>1, HonestyLasts
  <2> QED BY <2>1, <2>2
<1>2. ASSUME NEW b \in Browser, A!Logout(b) \/ A!CreateCharacter(b) PROVE RequestHonest(c)'
  BY <1>2, HonestyLasts DEF A!Logout, A!CreateCharacter
<1>3. CASE A!TimePasses
  BY <1>3, HonestyLasts DEF A!TimePasses
<1> QED BY <1>1, <1>2, <1>3 DEF A!Next

(* A cookie is set from an accepted request, and outlasts it.              *)
LEMMA OwnershipKept ==
  ASSUME NoOne \notin A!AccountName, HonestInv, A!Next, Grown PROVE CookiesOwned'
<1> SUFFICES ASSUME NEW c \in Browser, NEW a \in A!AccountName, cookie'[c] = a PROVE Owns(c, a)'
  BY DEF CookiesOwned, Owns
<1>1. CASE cookie[c] = a
  BY <1>1, OwnershipLasts DEF HonestInv, CookiesOwned
<1>2. CASE cookie[c] # a
  <2>1. cookie \in [Browser -> A!AccountName \cup {NoOne}]
    BY DEF HonestInv, AccountTypes
  <2>2. ASSUME NEW b \in Browser, A!Logout(b) PROVE FALSE
    BY <1>2, <2>1, <2>2 DEF A!Logout
  <2>3. ASSUME NEW b \in Browser, A!SetCookie(b) PROVE Owns(c, a)
    <3>1. c = b /\ a = signin[b].name /\ signin[b].stage = "accepted"
      BY <1>2, <2>1, <2>3 DEF A!SetCookie
    <3> QED BY <3>1 DEF HonestInv, RequestsHonest, RequestHonest
  <2>4. ASSUME NEW b \in Browser,
               \/ \E n \in Name, p \in Password : A!LookUp(b, n, p)
               \/ A!Verify(b) \/ A!Insert(b) \/ A!Break(b) \/ A!CreateCharacter(b)
        PROVE  cookie' = cookie
    BY <2>4 DEF A!LookUp, A!Verify, A!Insert, A!Break, A!CreateCharacter
  <2>5. A!TimePasses => cookie' = cookie
    BY DEF A!TimePasses
  <2>6. Owns(c, a)
    BY <1>2, <2>2, <2>3, <2>4, <2>5 DEF A!Next
  <2> QED BY <2>6, OwnershipLasts
<1> QED BY <1>1, <1>2

-----------------------------------------------------------------------------
(* Accounts: the limiters. *)

Meter == [count : Nat, reset : Nat]

(* The passes of a key up to time t, those that opened a window marked.    *)
Passes(q, t) ==
  /\ q \in Seq(Nat)
  /\ \A i \in 1..Len(q) : q[i] <= t
  /\ \A i, j \in 1..Len(q) : i <= j => q[i] <= q[j]

(* Windows do not overlap, the first pass opens one, and of any Limit + 1  *)
(* passes in succession one that is not the first opens one.               *)
Windows(q, open) ==
  /\ open \subseteq 1..Len(q)
  /\ 1 \in 1..Len(q) => 1 \in open
  /\ \A i, j \in open : i < j => q[i] + Window <= q[j]
  /\ \A i \in 1..Len(q) : i + Limit <= Len(q) => \E j \in open : i < j /\ j <= i + Limit

(* An open bucket is that of the last window, and counts what has passed   *)
(* in it; without one every window has ended.                              *)
Counts(b, q, open, t) ==
  \/ /\ b.reset > t
     /\ \E last \in open :
          /\ q[last] + Window = b.reset
          /\ \A j \in open : j <= last
          /\ b.count \in Nat \ {0}
          /\ Len(q) = last - 1 + (IF b.count <= Limit THEN b.count ELSE Limit)
  \/ b.reset <= t /\ \A j \in open : q[j] + Window <= t

Metered(b, q, t) ==
  Passes(q, t) /\ \E open \in SUBSET (1..Len(q)) : Windows(q, open) /\ Counts(b, q, open, t)

(* A pass now is added to the passes.                                      *)
LEMMA PassesNow ==
  ASSUME NEW t \in Nat, NEW q, Passes(q, t)
  PROVE  /\ Passes(Append(q, t), t) /\ Len(Append(q, t)) = Len(q) + 1
         /\ \A i \in 1..Len(q) : Append(q, t)[i] = q[i]
         /\ Append(q, t)[Len(q) + 1] = t
<1>1. q \in Seq(Nat)
  BY DEF Passes
<1> DEFINE longer == Append(q, t)
<1>2. longer \in Seq(Nat) /\ Len(longer) = Len(q) + 1 /\ longer[Len(q) + 1] = t
      /\ \A i \in 1..Len(q) : longer[i] = q[i]
  BY <1>1
<1>3. Len(q) \in Nat /\ \A i \in 1..Len(q) : q[i] \in Nat
  BY <1>1
<1> HIDE DEF longer
<1>4. \A i \in 1..Len(longer) : i \in 1..Len(q) \/ i = Len(q) + 1
  BY <1>2, <1>3
<1>5. \A i \in 1..Len(longer) : longer[i] <= t
  BY <1>2, <1>3, <1>4 DEF Passes
<1>6. \A i, j \in 1..Len(longer) : i <= j => longer[i] <= longer[j]
  BY <1>2, <1>3, <1>4, <1>5 DEF Passes
<1>7. Passes(longer, t)
  BY <1>2, <1>5, <1>6 DEF Passes
<1> QED BY <1>2, <1>7 DEF longer

(* Time passes; an open window may end by it.                              *)
LEMMA MeteredLater ==
  ASSUME NEW t \in Nat, NEW b \in Meter, NEW q, Metered(b, q, t)
  PROVE  Metered(b, q, t + 1)
<1>1. PICK open \in SUBSET (1..Len(q)) : Windows(q, open) /\ Counts(b, q, open, t)
  BY DEF Metered
<1>2. Passes(q, t) /\ Len(q) \in Nat /\ \A i \in 1..Len(q) : q[i] \in Nat
  BY DEF Metered, Passes
<1>3. Passes(q, t + 1)
  BY <1>2 DEF Passes
<1>4. b.reset \in Nat
  BY DEF Meter
<1>5. CASE b.reset <= t
  <2>1. \A j \in open : q[j] + Window <= t
    BY <1>1, <1>4, <1>5 DEF Counts
  <2>2. \A j \in open : q[j] + Window <= t + 1
    BY <1>2, <2>1, AccountsAssumption
  <2>3. Counts(b, q, open, t + 1)
    BY <1>4, <1>5, <2>2 DEF Counts
  <2> QED BY <1>1, <1>3, <2>3 DEF Metered
<1>6. CASE b.reset > t
  <2>1. PICK last \in open :
          /\ q[last] + Window = b.reset
          /\ \A j \in open : j <= last
          /\ b.count \in Nat \ {0}
          /\ Len(q) = last - 1 + (IF b.count <= Limit THEN b.count ELSE Limit)
    BY <1>1, <1>4, <1>6 DEF Counts
  <2>2. CASE b.reset > t + 1
    BY <1>1, <1>3, <2>1, <2>2 DEF Metered, Counts
  <2>3. CASE b.reset <= t + 1
    <3>1. \A j \in open : q[j] + Window <= t + 1
      <4> TAKE j \in open
      <4>1. q[j] <= q[last] /\ q[j] \in Nat /\ q[last] \in Nat
        BY <1>2, <2>1 DEF Passes
      <4> QED BY <1>4, <2>1, <2>3, <4>1, AccountsAssumption
    <3> QED BY <1>1, <1>3, <2>3, <3>1 DEF Metered, Counts
  <2> QED BY <1>4, <2>2, <2>3
<1> QED BY <1>4, <1>5, <1>6

(* A bucket whose window has ended may be forgotten.                       *)
LEMMA MeteredForgotten ==
  ASSUME NEW t \in Nat, NEW b \in Meter, NEW c \in Meter, NEW q,
         Metered(b, q, t), b.reset <= t, c.reset <= t
  PROVE  Metered(c, q, t)
<1>1. PICK open \in SUBSET (1..Len(q)) : Windows(q, open) /\ Counts(b, q, open, t)
  BY DEF Metered
<1>2. ~(b.reset > t)
  BY DEF Meter
<1>3. Counts(c, q, open, t)
  BY <1>1, <1>2 DEF Counts
<1> QED BY <1>1, <1>3 DEF Metered

(* A window is opened by a request, which passes.                          *)
LEMMA MeteredOpened ==
  ASSUME NEW t \in Nat, NEW b \in Meter, NEW q, Metered(b, q, t), b.reset <= t
  PROVE  Metered([count |-> 1, reset |-> t + Window], Append(q, t), t)
<1> DEFINE longer == Append(q, t)
           n == Len(q) + 1
           c == [count |-> 1, reset |-> t + Window]
<1>1. PICK open \in SUBSET (1..Len(q)) : Windows(q, open) /\ Counts(b, q, open, t)
  BY DEF Metered
<1>2. Len(q) \in Nat /\ \A i \in 1..Len(q) : q[i] \in Nat
  BY DEF Metered, Passes
<1>3. Passes(longer, t) /\ Len(longer) = n /\ longer[n] = t /\ \A i \in 1..Len(q) : longer[i] = q[i]
  BY PassesNow DEF Metered
<1>4. \A j \in open : q[j] + Window <= t
  BY <1>1 DEF Counts, Meter
<1> HIDE DEF longer
<1>5. Windows(longer, open \cup {n})
  <2>1. open \cup {n} \subseteq 1..Len(longer)
    <3> SUFFICES ASSUME NEW i \in open \cup {n} PROVE i \in 1..n
      BY <1>3
    <3>1. i \in 1..Len(q) \/ i = n
      OBVIOUS
    <3> QED BY <1>2, <3>1
  <2>2. 1 \in open \cup {n}
    <3>1. Len(q) = 0 \/ 1 \in 1..Len(q)
      BY <1>2
    <3> QED BY <1>1, <3>1 DEF Windows
  <2>3. ASSUME NEW i \in open \cup {n}, NEW j \in open \cup {n}, i < j
        PROVE  longer[i] + Window <= longer[j]
    <3>1. i \in 1..Len(q) /\ i \in open
      BY <1>2, <2>3
    <3>2. CASE j = n
      BY <1>3, <1>4, <3>1, <3>2
    <3>3. CASE j # n
      BY <1>1, <1>3, <2>3, <3>1, <3>3 DEF Windows
    <3> QED BY <3>2, <3>3
  <2>4. ASSUME NEW i \in 1..Len(longer), i + Limit <= Len(longer)
        PROVE  \E j \in open \cup {n} : i < j /\ j <= i + Limit
    <3>1. CASE i + Limit = n
      BY <1>2, <3>1, AccountsAssumption
    <3>2. CASE i + Limit # n
      <4>1. i \in 1..Len(q) /\ i + Limit <= Len(q)
        BY <1>2, <1>3, <2>4, <3>2, AccountsAssumption
      <4> QED BY <1>1, <4>1 DEF Windows
    <3> QED BY <3>1, <3>2
  <2> QED BY <2>1, <2>2, <2>3, <2>4 DEF Windows
<1>6. Counts(c, longer, open \cup {n}, t)
  <2>1. CASE t + Window > t
    <3>1. longer[n] + Window = c.reset /\ c.count \in Nat \ {0} /\ c.count = 1
      BY <1>3
    <3>2. \A j \in open \cup {n} : j <= n
      BY <1>2
    <3>3. Len(longer) = n - 1 + (IF c.count <= Limit THEN c.count ELSE Limit)
      BY <1>2, <1>3, AccountsAssumption
    <3> QED BY <2>1, <3>1, <3>2, <3>3 DEF Counts
  <2>2. CASE ~(t + Window > t)
    <3>1. \A j \in open \cup {n} : longer[j] + Window <= t
      BY <1>2, <1>3, <1>4, <2>2, AccountsAssumption
    <3> QED BY <2>2, <3>1, AccountsAssumption DEF Counts
  <2> QED BY <2>1, <2>2
<1> QED BY <1>3, <1>5, <1>6 DEF Metered, longer

(* In an open window a request is counted, and passes up to the limit.     *)
LEMMA MeteredCounted ==
  ASSUME NEW t \in Nat, NEW b \in Meter, NEW q, Metered(b, q, t), b.reset > t
  PROVE  Metered([b EXCEPT !.count = @ + 1],
                 IF b.count < Limit THEN Append(q, t) ELSE q, t)
<1> DEFINE longer == Append(q, t)
           n == Len(q) + 1
           c == [b EXCEPT !.count = @ + 1]
<1>1. PICK open \in SUBSET (1..Len(q)) : Windows(q, open) /\ Counts(b, q, open, t)
  BY DEF Metered
<1>2. Len(q) \in Nat /\ \A i \in 1..Len(q) : q[i] \in Nat
  BY DEF Metered, Passes
<1>3. b.reset \in Nat /\ b.count \in Nat /\ c.reset = b.reset /\ c.count = b.count + 1
  BY DEF Meter
<1>4. PICK last \in open :
        /\ q[last] + Window = b.reset
        /\ \A j \in open : j <= last
        /\ b.count \in Nat \ {0}
        /\ Len(q) = last - 1 + (IF b.count <= Limit THEN b.count ELSE Limit)
  BY <1>1, <1>3 DEF Counts
<1>5. last \in 1..Len(q)
  BY <1>1
<1> HIDE DEF c
<1>6. CASE b.count < Limit
  <2>1. Passes(longer, t) /\ Len(longer) = n /\ longer[n] = t
        /\ \A i \in 1..Len(q) : longer[i] = q[i]
    BY PassesNow DEF Metered
  <2> HIDE DEF longer
  <2>2. Windows(longer, open)
    <3>1. open \subseteq 1..Len(longer) /\ 1 \in open
      BY <1>1, <1>2, <1>5, <2>1 DEF Windows
    <3>2. \A i, j \in open : i < j => longer[i] + Window <= longer[j]
      BY <1>1, <2>1 DEF Windows
    <3>3. ASSUME NEW i \in 1..Len(longer), i + Limit <= Len(longer)
          PROVE  \E j \in open : i < j /\ j <= i + Limit
      <4>1. CASE i + Limit = n
        <5>1. i < last /\ last <= i + Limit
          BY <1>2, <1>3, <1>4, <1>5, <1>6, <4>1, AccountsAssumption
        <5> QED BY <5>1
      <4>2. CASE i + Limit # n
        <5>1. i \in 1..Len(q) /\ i + Limit <= Len(q)
          BY <1>2, <2>1, <3>3, <4>2, AccountsAssumption
        <5> QED BY <1>1, <5>1 DEF Windows
      <4> QED BY <4>1, <4>2
    <3> QED BY <3>1, <3>2, <3>3 DEF Windows
  <2>3. Counts(c, longer, open, t)
    <3>1. longer[last] + Window = c.reset /\ c.reset > t /\ c.count \in Nat \ {0}
      BY <1>3, <1>4, <1>5, <2>1
    <3>2. Len(longer) = last - 1 + (IF c.count <= Limit THEN c.count ELSE Limit)
      BY <1>2, <1>3, <1>4, <1>5, <1>6, <2>1, AccountsAssumption
    <3> QED BY <1>4, <3>1, <3>2 DEF Counts
  <2> QED BY <1>2, <1>6, <2>1, <2>2, <2>3 DEF Metered, longer, c
<1>7. CASE ~(b.count < Limit)
  <2>1. Counts(c, q, open, t)
    <3>1. c.reset > t /\ c.count \in Nat \ {0} /\ q[last] + Window = c.reset
      BY <1>3, <1>4
    <3>2. Len(q) = last - 1 + (IF c.count <= Limit THEN c.count ELSE Limit)
      BY <1>2, <1>3, <1>4, <1>5, <1>7, AccountsAssumption
    <3> QED BY <1>4, <3>1, <3>2 DEF Counts
  <2> QED BY <1>1, <1>7, <2>1 DEF Metered, c
<1> QED BY <1>6, <1>7

(* Two windows meet at most in a stretch as long as one, and the first of  *)
(* them has lost the request that opened it.                               *)
LEMMA MeteredHolds ==
  ASSUME NEW t \in Nat, NEW b, NEW q, Metered(b, q, t),
         NEW i \in 1..Len(q), i + 2 * Limit - 1 <= Len(q)
  PROVE  q[i] + Window <= q[i + 2 * Limit - 1]
<1>1. PICK open \in SUBSET (1..Len(q)) : Windows(q, open)
  BY DEF Metered
<1>2. /\ Len(q) \in Nat /\ \A j \in 1..Len(q) : q[j] \in Nat
      /\ \A j, k \in 1..Len(q) : j <= k => q[j] <= q[k]
  BY DEF Metered, Passes
<1> DEFINE end == i + 2 * Limit - 1
<1>3. end \in 1..Len(q) /\ i + Limit <= end /\ i <= end
  BY <1>2, AccountsAssumption
<1>4. ASSUME NEW j \in open, NEW k \in open, i <= j, j < k, k <= end
      PROVE  q[i] + Window <= q[end]
  <2>1. j \in 1..Len(q) /\ k \in 1..Len(q)
    OBVIOUS
  <2>2. q[i] <= q[j] /\ q[k] <= q[end] /\ q[j] + Window <= q[k]
    BY <1>1, <1>2, <1>3, <1>4, <2>1 DEF Windows
  <2>3. {q[i], q[j], q[k], q[end]} \subseteq Nat
    BY <1>2, <1>3, <2>1
  <2> HIDE DEF end
  <2> QED BY <2>2, <2>3, AccountsAssumption
<1>5. PICK j \in open : i < j /\ j <= i + Limit
  <2>1. i + Limit <= Len(q)
    BY <1>2, <1>3, AccountsAssumption
  <2> QED BY <1>1, <2>1 DEF Windows
<1>6. j \in 1..Len(q)
  OBVIOUS
<1>7. CASE j < i + Limit
  <2>1. j + Limit <= end /\ j + Limit <= Len(q)
    BY <1>2, <1>6, <1>7, AccountsAssumption
  <2>2. PICK k \in open : j < k /\ k <= j + Limit
    BY <1>1, <1>6, <2>1 DEF Windows
  <2>3. i <= j /\ k <= end /\ k \in 1..Len(q)
    BY <1>5, <1>6, <2>1, <2>2, AccountsAssumption
  <2> QED BY <1>4, <2>2, <2>3
<1>8. CASE j = i + Limit
  <2>1. CASE i \in open
    BY <1>3, <1>4, <1>5, <1>8, <2>1
  <2>2. CASE i \notin open
    <3>1. i # 1
      BY <1>1, <2>2 DEF Windows
    <3>2. i - 1 \in 1..Len(q) /\ (i - 1) + Limit <= Len(q)
      BY <1>2, <1>3, <3>1, AccountsAssumption
    <3>3. PICK k \in open : i - 1 < k /\ k <= (i - 1) + Limit
      BY <1>1, <3>2 DEF Windows
    <3>4. i <= k /\ k < j /\ j <= end
      BY <1>3, <1>8, <3>3, AccountsAssumption
    <3> QED BY <1>4, <3>4
  <2> QED BY <2>1, <2>2
<1> QED BY <1>5, <1>6, <1>7, <1>8, AccountsAssumption

-----------------------------------------------------------------------------
BucketsTyped ==
  /\ now \in 0..MaxTime /\ requests \in 0..MaxRequests
  /\ buckets \in [A!Limiter -> [A!Bucket -> Meter]]
  /\ granted \in [A!Limiter -> [A!Bucket -> Seq(Nat)]]

LimitInv ==
  /\ BucketsTyped
  /\ \A l \in A!Limiter, k \in A!Bucket : Metered(buckets[l][k], granted[l][k], now)

(* No bucket and no pass at first.                                         *)
LEMMA NothingMetered == \A t \in Nat : Metered(A!NoBucket, <<>>, t)
<1> TAKE t \in Nat
<1>1. Passes(<<>>, t) /\ Len(<<>>) = 0
  BY DEF Passes
<1>2. {} \in SUBSET (1..Len(<<>>)) /\ Windows(<<>>, {})
  BY <1>1, AccountsAssumption DEF Windows
<1>3. Counts(A!NoBucket, <<>>, {}, t)
  BY DEF Counts, A!NoBucket
<1> QED BY <1>1, <1>2, <1>3 DEF Metered

(* No limiter has a bucket at first.                                       *)
LEMMA InitLimited == A!Init => LimitInv
<1> SUFFICES ASSUME A!Init PROVE LimitInv
  OBVIOUS
<1>1. BucketsTyped
  BY AccountsAssumption DEF A!Init, BucketsTyped, Meter, A!NoBucket
<1>2. \A l \in A!Limiter, k \in A!Bucket :
        buckets[l][k] = A!NoBucket /\ granted[l][k] = <<>> /\ now = 0
  BY DEF A!Init
<1> QED BY <1>1, <1>2, NothingMetered DEF LimitInv

(* A request keeps every key within its limits: its own is counted or      *)
(* opened, and of the others only windows that have ended are forgotten.   *)
LEMMA ConsumeLimited ==
  ASSUME LimitInv, NEW l \in A!Limiter, NEW k \in A!Bucket, A!Consume(l, k), now' = now
  PROVE  /\ buckets' \in [A!Limiter -> [A!Bucket -> Meter]]
         /\ granted' \in [A!Limiter -> [A!Bucket -> Seq(Nat)]]
         /\ \A x \in A!Limiter, y \in A!Bucket : Metered(buckets'[x][y], granted'[x][y], now)
<1>0. /\ now \in Nat /\ buckets \in [A!Limiter -> [A!Bucket -> Meter]]
      /\ granted \in [A!Limiter -> [A!Bucket -> Seq(Nat)]]
      /\ \A x \in A!Limiter, y \in A!Bucket : Metered(buckets[x][y], granted[x][y], now)
  BY DEF LimitInv, BucketsTyped
<1> DEFINE b == buckets[l][k]
           q == granted[l][k]
           fresh == [count |-> 1, reset |-> now + Window]
<1>1. b \in Meter /\ q \in Seq(Nat) /\ b.reset \in Nat /\ b.count \in Nat
      /\ A!NoBucket \in Meter /\ fresh \in Meter /\ Append(q, now) \in Seq(Nat)
  BY <1>0, AccountsAssumption DEF Meter, A!NoBucket
<1>2. CASE b.reset > now
  <2> DEFINE c == [b EXCEPT !.count = @ + 1]
             longer == IF b.count < Limit THEN Append(q, now) ELSE q
  <2>1. buckets' = [buckets EXCEPT ![l] = [buckets[l] EXCEPT ![k] = c]]
    BY <1>0, <1>2 DEF A!Consume, A!Open, A!Counted
  <2>2. granted' = [granted EXCEPT ![l] = [granted[l] EXCEPT ![k] = longer]]
    <3>1. A!Allowed(l, k) <=> b.count < Limit
      BY <1>2 DEF A!Allowed, A!Open
    <3> QED BY <1>0, <3>1 DEF A!Consume
  <2>3. c \in Meter /\ longer \in Seq(Nat)
    BY <1>1 DEF Meter
  <2>4. Metered(c, longer, now)
    BY <1>0, <1>1, <1>2, MeteredCounted
  <2> HIDE DEF c, longer
  <2> QED BY <1>0, <2>1, <2>2, <2>3, <2>4
<1>3. CASE ~(b.reset > now)
  <2> DEFINE opened == [buckets[l] EXCEPT ![k] = fresh]
             longer == Append(q, now)
  <2>1. buckets' = [buckets EXCEPT ![l] = A!Pruned(opened)]
    BY <1>0, <1>3 DEF A!Consume, A!Open, A!Opened
  <2>2. granted' = [granted EXCEPT ![l] = [granted[l] EXCEPT ![k] = longer]]
    <3>1. A!Allowed(l, k)
      BY <1>3 DEF A!Allowed, A!Open
    <3> QED BY <1>0, <3>1 DEF A!Consume
  <2>3. Metered(fresh, longer, now) /\ longer \in Seq(Nat)
    BY <1>0, <1>1, <1>3, MeteredOpened
  <2> HIDE DEF fresh, longer
  <2>4. opened \in [A!Bucket -> Meter] /\ opened[k] = fresh
        /\ \A y \in A!Bucket : y # k => opened[y] = buckets[l][y]
    BY <1>0, <1>1
  <2>5. granted' \in [A!Limiter -> [A!Bucket -> Seq(Nat)]] /\ granted'[l][k] = longer
        /\ (\A y \in A!Bucket : y # k => granted'[l][y] = granted[l][y])
        /\ \A x \in A!Limiter : x # l => granted'[x] = granted[x]
    BY <1>0, <2>2, <2>3
  <2> HIDE DEF opened
  <2>6. \A y \in A!Bucket : Metered(opened[y], granted'[l][y], now)
    BY <1>0, <2>3, <2>4, <2>5
  <2>7. A!Pruned(opened) \in [A!Bucket -> Meter] /\ \A y \in A!Bucket :
          \/ A!Pruned(opened)[y] = opened[y]
          \/ A!Pruned(opened)[y] = A!NoBucket /\ ~(opened[y].reset > now)
    BY <1>1, <2>4 DEF A!Pruned
  <2>8. ASSUME NEW y \in A!Bucket PROVE Metered(A!Pruned(opened)[y], granted'[l][y], now)
    <3>1. opened[y] \in Meter /\ opened[y].reset \in Nat
      BY <2>4 DEF Meter
    <3>2. CASE A!Pruned(opened)[y] = A!NoBucket /\ ~(opened[y].reset > now)
      <4>1. opened[y].reset <= now /\ A!NoBucket.reset <= now
        BY <1>0, <3>1, <3>2 DEF A!NoBucket
      <4> QED BY <1>0, <1>1, <2>6, <3>1, <3>2, <4>1, MeteredForgotten
    <3> QED BY <2>6, <2>7, <3>2
  <2>9. buckets' \in [A!Limiter -> [A!Bucket -> Meter]] /\ buckets'[l] = A!Pruned(opened)
        /\ \A x \in A!Limiter : x # l => buckets'[x] = buckets[x]
    BY <1>0, <2>1, <2>7
  <2> QED BY <1>0, <2>5, <2>8, <2>9
<1> QED BY <1>2, <1>3

(* Requests and time keep the limits; nothing else touches them.           *)
LEMMA LimitKept ==
  ASSUME cookie \in [Browser -> A!AccountName \cup {NoOne}], LimitInv, [A!Next]_A!vars
  PROVE  LimitInv'
<1>0. BucketsTyped /\ now \in Nat /\ requests \in Nat
  BY DEF LimitInv, BucketsTyped
<1>1. ASSUME NEW l \in A!Limiter, NEW k \in A!Bucket, A!Consume(l, k), now' = now, A!Asks
      PROVE  LimitInv'
  <2>1. requests' \in 0..MaxRequests
    BY <1>0, <1>1, AccountsAssumption DEF A!Asks
  <2> QED BY <1>0, <1>1, <2>1, ConsumeLimited DEF LimitInv, BucketsTyped
<1>2. ASSUME UNCHANGED <<buckets, granted, now, requests>> PROVE LimitInv'
  BY <1>2 DEF LimitInv, BucketsTyped
<1>3. ASSUME NEW b \in Browser, NEW n \in Name, NEW p \in Password, A!LookUp(b, n, p)
      PROVE  LimitInv'
  <2>1. A!ClientKey(b) \in A!Bucket
    BY DEF A!ClientKey, A!Bucket
  <2> QED BY <1>1, <1>3, <2>1 DEF A!LookUp, A!Limiter
<1>4. ASSUME NEW b \in Browser, A!CreateCharacter(b) PROVE LimitInv'
  <2>1. cookie[b] \in A!Bucket
    BY <1>4 DEF A!CreateCharacter, A!Bucket
  <2> QED BY <1>1, <1>4, <2>1 DEF A!CreateCharacter, A!Limiter
<1>5. ASSUME NEW b \in Browser,
             A!Verify(b) \/ A!Insert(b) \/ A!SetCookie(b) \/ A!Break(b) \/ A!Logout(b)
      PROVE  LimitInv'
  BY <1>2, <1>5 DEF A!Verify, A!Insert, A!SetCookie, A!Break, A!Logout
<1>6. CASE A!TimePasses
  <2>1. now' = now + 1 /\ now' \in 0..MaxTime /\ buckets' = buckets /\ granted' = granted
        /\ requests' = requests
    BY <1>0, <1>6, AccountsAssumption DEF A!TimePasses
  <2>2. ASSUME NEW l \in A!Limiter, NEW k \in A!Bucket
        PROVE  Metered(buckets[l][k], granted[l][k], now + 1)
    <3>1. buckets[l][k] \in Meter /\ Metered(buckets[l][k], granted[l][k], now)
      BY DEF LimitInv, BucketsTyped
    <3> QED BY <1>0, <3>1, MeteredLater
  <2> QED BY <1>0, <2>1, <2>2 DEF LimitInv, BucketsTyped
<1>7. CASE UNCHANGED A!vars
  BY <1>2, <1>7 DEF A!vars
<1> QED BY <1>3, <1>4, <1>5, <1>6, <1>7 DEF A!Next

(* What the run checks of the limits.                                      *)
LEMMA LimitInvHolds == LimitInv => A!LimitsHold
<1> SUFFICES ASSUME LimitInv, NEW l \in A!Limiter, NEW k \in A!Bucket,
                    NEW i \in 1..Len(granted[l][k]),
                    i + 2 * Limit - 1 <= Len(granted[l][k])
             PROVE  granted[l][k][i] + Window <= granted[l][k][i + 2 * Limit - 1]
  BY DEF A!LimitsHold
<1>1. Metered(buckets[l][k], granted[l][k], now) /\ now \in Nat
  BY DEF LimitInv, BucketsTyped
<1> QED BY <1>1, MeteredHolds

-----------------------------------------------------------------------------
(* Sprites. *)

LoadState == [stage : {"none", "begun", "read"}, read : P!Version \cup {P!None}]

SpriteTypes ==
  /\ sprites \in [SpriteCharacter -> P!Version \cup {P!None}]
  /\ entry \in [Replica -> [SpriteCharacter -> P!Version \cup {P!None}]]
  /\ load \in [Replica -> [SpriteCharacter -> LoadState]]
  /\ evicting \in [Replica -> [SpriteCharacter -> Nat]]
  /\ excused \in [Replica -> [SpriteCharacter -> BOOLEAN]]

Explained(r, c) == evicting[r][c] > 0 \/ excused[r][c]

LoadsExplained ==
  \A r \in Replica, c \in SpriteCharacter :
    P!Loaded(r, c) /\ load[r][c].read # sprites[c] => Explained(r, c)

SpritesInv == SpriteTypes /\ LoadsExplained /\ P!OldSpritesExplained

-----------------------------------------------------------------------------
(* Every cache is empty at first.                                          *)
LEMMA InitExplained == ASSUME MaxVersion \in Nat \ {0} PROVE P!Init => SpritesInv
BY DEF P!Init, SpritesInv, SpriteTypes, LoadsExplained, P!OldSpritesExplained,
       LoadState, P!NoLoad, P!None,
       P!Version, P!Loaded, Explained

(* Every step keeps the types.                                             *)
LEMMA SpriteTypesKept == ASSUME MaxVersion \in Nat \ {0}, SpriteTypes, P!Next PROVE SpriteTypes'
<1>1. P!Version \cup {P!None} = 0..MaxVersion
  BY DEF P!Version, P!None
<1> SUFFICES ASSUME NEW r \in Replica,
                    \/ P!Restart(r)
                    \/ \E c \in SpriteCharacter : \/ P!BeginLoad(r, c) \/ P!ReadRow(r, c)
                                            \/ P!Insert(r, c)
                                            \/ P!DropLoad(r, c) \/ P!Redraw(r, c) \/ P!Delete(r, c)
                                            \/ P!Evict(r, c)
             PROVE  SpriteTypes'
  BY DEF P!Next
<1>2. CASE P!Restart(r)
  BY <1>2 DEF P!Restart, SpriteTypes, LoadState, P!NoLoad, P!None, P!Version
<1>3. ASSUME NEW c \in SpriteCharacter, P!BeginLoad(r, c) PROVE SpriteTypes'
  BY <1>3 DEF P!BeginLoad, SpriteTypes, LoadState, P!Begun, P!None, P!Version
<1>4. ASSUME NEW c \in SpriteCharacter, P!ReadRow(r, c) PROVE SpriteTypes'
  BY <1>4 DEF P!ReadRow, SpriteTypes, LoadState, P!NoLoad, P!None, P!Version
<1>5. ASSUME NEW c \in SpriteCharacter, P!Insert(r, c) PROVE SpriteTypes'
  <2>1. load[r][c].read \in P!Version \cup {P!None}
    BY DEF SpriteTypes, LoadState
  <2> QED BY <1>5, <2>1 DEF P!Insert, SpriteTypes, LoadState, P!NoLoad, P!None, P!Version
<1>6. ASSUME NEW c \in SpriteCharacter, P!DropLoad(r, c) PROVE SpriteTypes'
  BY <1>6 DEF P!DropLoad, SpriteTypes, LoadState, P!NoLoad, P!None, P!Version
<1>7. ASSUME NEW c \in SpriteCharacter, NEW v \in P!Version \cup {P!None}, P!Change(r, c, v)
      PROVE  SpriteTypes'
  BY <1>7 DEF P!Change, P!Elsewhere, SpriteTypes
<1>8. ASSUME NEW c \in SpriteCharacter, P!Redraw(r, c) PROVE SpriteTypes'
  <2>1. sprites[c] \in 0..MaxVersion
    BY <1>1 DEF SpriteTypes
  <2>2. sprites[c] + 1 \in P!Version \cup {P!None}
    BY <1>1, <1>8, <2>1 DEF P!Redraw
  <2> QED BY <1>7, <1>8, <2>2 DEF P!Redraw
<1>9. ASSUME NEW c \in SpriteCharacter, P!Delete(r, c) PROVE SpriteTypes'
  BY <1>7, <1>9 DEF P!Delete
<1>10. ASSUME NEW c \in SpriteCharacter, P!Evict(r, c) PROVE SpriteTypes'
  <2>1. evicting[r][c] - 1 \in Nat
    BY <1>10 DEF P!Evict, SpriteTypes
  <2>2. P!Loaded(r, c) \in BOOLEAN
    BY DEF P!Loaded
  <2> QED BY <1>10, <2>1, <2>2 DEF P!Evict, SpriteTypes, P!None
<1> QED BY <1>2, <1>3, <1>4, <1>5, <1>6, <1>8, <1>9, <1>10

(* A change is excused on every other replica, and its own owes an         *)
(* eviction: whatever has been read or cached until then is explained.     *)
LEMMA ChangesExplainAll ==
  ASSUME SpriteTypes, NEW r \in Replica, NEW c \in SpriteCharacter, NEW v, P!Change(r, c, v),
         NEW s \in Replica
  PROVE  Explained(s, c)'
<1>1. CASE s = r
  BY <1>1 DEF P!Change, Explained, SpriteTypes
<1>2. CASE s # r
  BY <1>2 DEF P!Change, P!Elsewhere, Explained, SpriteTypes
<1> QED BY <1>1, <1>2

(* And of another character it says nothing.                               *)
LEMMA ChangesSpareOthers ==
  ASSUME SpriteTypes, NEW r \in Replica, NEW c \in SpriteCharacter, NEW v, P!Change(r, c, v),
         NEW s \in Replica, NEW d \in SpriteCharacter, d # c
  PROVE  /\ sprites'[d] = sprites[d] /\ entry'[s][d] = entry[s][d] /\ load'[s][d] = load[s][d]
         /\ Explained(s, d) => Explained(s, d)'
<1>1. /\ sprites'[d] = sprites[d] /\ entry'[s][d] = entry[s][d] /\ load'[s][d] = load[s][d]
      /\ evicting'[s][d] = evicting[s][d]
  BY DEF P!Change, SpriteTypes
<1>2. excused'[s][d] = excused[s][d]
  BY DEF P!Change, P!Elsewhere, SpriteTypes
<1> QED BY <1>1, <1>2 DEF Explained

(* A change keeps the invariant.                                           *)
LEMMA ChangeKeeps ==
  ASSUME SpritesInv, NEW r \in Replica, NEW c \in SpriteCharacter, NEW v, P!Change(r, c, v)
  PROVE  LoadsExplained' /\ P!OldSpritesExplained'
<1> USE DEF SpritesInv
<1> SUFFICES ASSUME NEW s \in Replica, NEW d \in SpriteCharacter
             PROVE  /\ (P!Loaded(s, d) /\ load[s][d].read # sprites[d] => Explained(s, d))'
                    /\ (entry[s][d] \notin {P!None, sprites[d]} => Explained(s, d))'
  BY DEF LoadsExplained, P!OldSpritesExplained, Explained
<1>1. CASE d = c
  BY <1>1, ChangesExplainAll
<1>2. CASE d # c
  <2>1. /\ sprites'[d] = sprites[d] /\ entry'[s][d] = entry[s][d] /\ load'[s][d] = load[s][d]
        /\ Explained(s, d) => Explained(s, d)'
    BY <1>2, ChangesSpareOthers
  <2>2. /\ P!Loaded(s, d) /\ load[s][d].read # sprites[d] => Explained(s, d)
        /\ entry[s][d] \notin {P!None, sprites[d]} => Explained(s, d)
    BY DEF LoadsExplained, P!OldSpritesExplained, Explained
  <2> QED BY <2>1, <2>2 DEF P!Loaded, P!None
<1> QED BY <1>1, <1>2

(* Every step keeps what is said of loads and of entries.                  *)
LEMMA ExplanationsKept == ASSUME SpritesInv, P!Next PROVE LoadsExplained' /\ P!OldSpritesExplained'
<1> SUFFICES ASSUME NEW r \in Replica,
                    \/ P!Restart(r)
                    \/ \E c \in SpriteCharacter : \/ P!BeginLoad(r, c) \/ P!ReadRow(r, c)
                                            \/ P!Insert(r, c)
                                            \/ P!DropLoad(r, c) \/ P!Redraw(r, c) \/ P!Delete(r, c)
                                            \/ P!Evict(r, c)
             PROVE  LoadsExplained' /\ P!OldSpritesExplained'
  BY DEF P!Next
<1> USE DEF SpritesInv, Explained, P!Loaded, LoadsExplained, P!OldSpritesExplained,
            SpriteTypes, LoadState
<1>1. CASE P!Restart(r)
  BY <1>1 DEF P!Restart, P!NoLoad
<1>2. ASSUME NEW c \in SpriteCharacter, P!BeginLoad(r, c)
       PROVE LoadsExplained' /\ P!OldSpritesExplained'
  BY <1>2 DEF P!BeginLoad, P!Begun
<1>3. ASSUME NEW c \in SpriteCharacter, P!ReadRow(r, c)
       PROVE LoadsExplained' /\ P!OldSpritesExplained'
  BY <1>3 DEF P!ReadRow, P!NoLoad
<1>4. ASSUME NEW c \in SpriteCharacter, P!Insert(r, c)
       PROVE LoadsExplained' /\ P!OldSpritesExplained'
  BY <1>4 DEF P!Insert, P!NoLoad
<1>5. ASSUME NEW c \in SpriteCharacter, P!DropLoad(r, c)
       PROVE LoadsExplained' /\ P!OldSpritesExplained'
  BY <1>5 DEF P!DropLoad, P!NoLoad
<1>6. ASSUME NEW c \in SpriteCharacter, P!Redraw(r, c) \/ P!Delete(r, c)
      PROVE  LoadsExplained' /\ P!OldSpritesExplained'
  BY <1>6, ChangeKeeps DEF P!Redraw, P!Delete
<1>7. ASSUME NEW c \in SpriteCharacter, P!Evict(r, c)
       PROVE LoadsExplained' /\ P!OldSpritesExplained'
  BY <1>7 DEF P!Evict
<1> QED BY <1>1, <1>2, <1>3, <1>4, <1>5, <1>6, <1>7

-----------------------------------------------------------------------------
(* Stores: Postgres and the memory answer alike. *)

StoreTable == [ages : [Conn -> C!Age], fences : SUBSET Conn]
StoreMaps  == [ages : [Conn -> C!Age], fences : SUBSET Conn, slot : [Peer -> C!MaybeConn]]

(* The map from players finds what the map of connections has.             *)
SlotsFit(m) ==
  /\ \A c \in Conn : m.ages[c] # "none" => m.slot[playerOf[c]] = c
  /\ \A p \in Peer : m.slot[p] \in Conn =>
       playerOf[m.slot[p]] = p /\ m.ages[m.slot[p]] # "none"

SameRow(t, m, c) ==
  \/ t.ages[c] = m.ages[c]
  \/ t.ages[c] = "stale" /\ m.ages[c] = "none"
  \/ t.ages[c] = "none" /\ m.ages[c] = "stale"

Agree(t, m) ==
  /\ t \in StoreTable /\ m \in StoreMaps
  /\ t.fences = m.fences
  /\ \A c \in Conn : SameRow(t, m, c)
  /\ SlotsFit(m)

Alike(pg, memory) == pg.answer = memory.answer /\ Agree(pg.store, memory.store)

SocketStage == {"new", "claimed", "acking", "on", "undone", "rechecking", "closing",
          "unfencing", "gone"}

StoresInv ==
  /\ playerOf \in [Conn -> Peer]
  /\ stage \in [Conn -> SocketStage] /\ pushed \in [Conn -> C!MaybeConn]
  /\ registry \in [Replica \X Peer -> C!MaybeConn]
  /\ \A c \in Conn : stage[c] = "rechecking" => pushed[c] \in Conn
  /\ ~parted => answers[1] = answers[2] /\ Agree(table, maps)

-----------------------------------------------------------------------------
(* What both stores have when both have swept. *)
PgSwept(t) == [t EXCEPT !.ages = C!Without(@, C!Stale(@))]

(* Nothing is in either store at first.                                    *)
LEMMA InitAgrees == C!Init => StoresInv
BY StoresAssumption
   DEF C!Init, StoresInv, SocketStage, Agree, StoreTable, StoreMaps,
       C!Age, SameRow, SlotsFit, C!MaybeConn

(* Rows that differ are past their time, so sweeping makes them equal.     *)
LEMMA SweepingAgrees ==
  ASSUME playerOf \in [Conn -> Peer], NEW t, NEW m, Agree(t, m)
  PROVE  Agree(PgSwept(t), C!Swept(m)) /\ PgSwept(t).ages = C!Swept(m).ages
<1> DEFINE pg == PgSwept(t)
           mm == C!Swept(m)
<1>0. t \in StoreTable /\ m \in StoreMaps /\ SlotsFit(m) /\ t.fences = m.fences
      /\ \A c \in Conn : SameRow(t, m, c)
  BY DEF Agree
<1>1. pg \in StoreTable /\ pg.fences = t.fences
      /\ \A c \in Conn : pg.ages[c] = IF t.ages[c] = "stale" THEN "none" ELSE t.ages[c]
  BY <1>0 DEF PgSwept, C!Without, C!Stale, StoreTable, C!Age
<1>2. mm.ages \in [Conn -> C!Age] /\ mm.fences = m.fences
      /\ \A c \in Conn : mm.ages[c] = IF m.ages[c] = "stale" THEN "none" ELSE m.ages[c]
  BY <1>0 DEF C!Swept, C!Without, C!Stale, StoreMaps, C!Age
<1>3. mm.slot \in [Peer -> C!MaybeConn]
      /\ \A p \in Peer : mm.slot[p] =
           IF \E c \in Conn : m.ages[c] = "stale" /\ playerOf[c] = p THEN NoConn ELSE m.slot[p]
  BY <1>0 DEF C!Swept, C!Vacated, C!Stale, StoreMaps, C!MaybeConn
<1>4. mm \in StoreMaps
  <2>1. \A r \in StoreMaps, a \in [Conn -> C!Age] : [r EXCEPT !.ages = a] \in StoreMaps
    BY DEF StoreMaps
  <2>2. \A r \in StoreMaps, x \in [Peer -> C!MaybeConn] : [r EXCEPT !.slot = x] \in StoreMaps
    BY DEF StoreMaps
  <2>3. C!Without(m.ages, C!Stale(m.ages)) \in [Conn -> C!Age]
        /\ C!Vacated(m.slot, C!Stale(m.ages)) \in [Peer -> C!MaybeConn]
    BY <1>0 DEF C!Without, C!Vacated, C!Age, StoreMaps, C!MaybeConn
  <2> DEFINE mid == [m EXCEPT !.ages = C!Without(m.ages, C!Stale(m.ages))]
             slot == C!Vacated(m.slot, C!Stale(m.ages))
  <2>4. mm = [mid EXCEPT !.slot = slot]
    BY DEF C!Swept
  <2>5. mid \in StoreMaps
    BY <1>0, <2>1, <2>3
  <2> HIDE DEF mid, mm, slot
  <2>6. [mid EXCEPT !.slot = slot] \in StoreMaps
    BY <2>2, <2>3, <2>5 DEF slot
  <2> QED BY <2>4, <2>6
<1> HIDE DEF pg, mm
<1>5. \A c \in Conn : pg.ages[c] = mm.ages[c]
  BY <1>0, <1>1, <1>2 DEF SameRow
<1>6. pg.ages = mm.ages
  BY <1>1, <1>4, <1>5 DEF StoreTable, StoreMaps
<1>7. SlotsFit(mm)
  BY <1>0, <1>2, <1>3, StoresAssumption DEF SlotsFit
<1>8. Agree(pg, mm)
  BY <1>0, <1>1, <1>2, <1>4, <1>5, <1>7 DEF Agree, SameRow
<1> QED BY <1>6, <1>8 DEF pg, mm

(* Sweeping again changes nothing.                                         *)
LEMMA SweptTwice ==
  ASSUME NEW t \in StoreTable
  PROVE  /\ C!Stale(PgSwept(t).ages) = {}
         /\ \A c \in Conn : C!PgTaken(PgSwept(t), c) = C!PgTaken(t, c)
<1>1. PgSwept(t).ages = C!Without(t.ages, C!Stale(t.ages)) /\ PgSwept(t).fences = t.fences
  BY DEF PgSwept, StoreTable
<1>2. C!Stale(C!Without(t.ages, C!Stale(t.ages))) = {}
  BY DEF C!Stale, C!Without, StoreTable
<1>3. C!Without(PgSwept(t).ages, C!Stale(PgSwept(t).ages)) = C!Without(t.ages, C!Stale(t.ages))
  BY <1>1, <1>2 DEF C!Without
<1> QED BY <1>1, <1>2, <1>3 DEF C!PgTaken

(* A claim: the row of the player that is not the socket's own is replaced.*)
LEMMA TakingAgrees ==
  ASSUME playerOf \in [Conn -> Peer], NEW c \in Conn, NEW t, NEW m,
         Agree(t, m), t.ages = m.ages, C!Stale(t.ages) = {}
  PROVE  Alike(C!PgTaken(t, c), C!MemoryTaken(m, c))
<1> DEFINE pg == C!PgTaken(t, c)
           mm == C!MemoryTaken(m, c)
           gone == C!Rows(m.ages) \cap C!RivalsOf(c)
<1>0. /\ t.ages \in [Conn -> C!Age] /\ t.fences \in SUBSET Conn
      /\ m.ages \in [Conn -> C!Age] /\ m.fences \in SUBSET Conn
      /\ m.slot \in [Peer -> C!MaybeConn] /\ SlotsFit(m) /\ t.fences = m.fences
  BY DEF Agree, StoreTable, StoreMaps
<1>1. C!Without(t.ages, C!Stale(t.ages)) = m.ages
  BY <1>0 DEF C!Without
<1>2. gone \subseteq Conn
  BY DEF C!Rows
<1>3. ({m.slot[playerOf[c]]} \cap C!Rows(m.ages)) \ {c} = gone
  <2>1. playerOf[c] \in Peer
    OBVIOUS
  <2> QED BY <1>0, <2>1 DEF SlotsFit, C!Rows, C!RivalsOf
<1>4. pg.answer = gone /\ mm.answer = gone
  BY <1>1, <1>3 DEF C!PgTaken, C!MemoryTaken
<1>5. pg.store = [ages |-> [C!Without(m.ages, gone) EXCEPT ![c] = "fresh"],
                  fences |-> m.fences \cup gone]
  BY <1>0, <1>1 DEF C!PgTaken
<1>6. mm.store = [ages |-> [C!Without(m.ages, gone) EXCEPT ![c] = "fresh"],
                  slot |-> [m.slot EXCEPT ![playerOf[c]] = c],
                  fences |-> m.fences \cup gone]
  BY <1>3 DEF C!MemoryTaken
<1> DEFINE ages == [C!Without(m.ages, gone) EXCEPT ![c] = "fresh"]
           slot == [m.slot EXCEPT ![playerOf[c]] = c]
<1>7. ages \in [Conn -> C!Age] /\ \A d \in Conn :
        ages[d] = IF d = c THEN "fresh" ELSE IF d \in gone THEN "none" ELSE m.ages[d]
  BY <1>0 DEF C!Without, C!Age
<1>8. slot \in [Peer -> C!MaybeConn] /\ \A p \in Peer :
        slot[p] = IF p = playerOf[c] THEN c ELSE m.slot[p]
  BY <1>0 DEF C!MaybeConn
<1>9. (m.fences \cup gone) \in SUBSET Conn
  BY <1>0, <1>2
<1> HIDE DEF ages, slot
<1>10. pg.store \in StoreTable /\ mm.store \in StoreMaps
  <2>1. pg.store = [ages |-> ages, fences |-> m.fences \cup gone]
        /\ mm.store = [ages |-> ages, slot |-> slot, fences |-> m.fences \cup gone]
    BY <1>5, <1>6 DEF ages, slot
  <2> QED BY <1>7, <1>8, <1>9, <2>1 DEF StoreTable, StoreMaps
<1>11. pg.store.ages = ages /\ mm.store.ages = ages /\ mm.store.slot = slot
       /\ pg.store.fences = mm.store.fences
  BY <1>5, <1>6 DEF ages, slot
<1>12. SlotsFit(mm.store)
  <2> SUFFICES /\ \A d \in Conn : ages[d] # "none" => slot[playerOf[d]] = d
               /\ \A p \in Peer : slot[p] \in Conn =>
                    playerOf[slot[p]] = p /\ ages[slot[p]] # "none"
    BY <1>11 DEF SlotsFit
  <2>1. ASSUME NEW d \in Conn, ages[d] # "none" PROVE slot[playerOf[d]] = d
    <3>1. CASE d = c
      BY <1>8, <3>1
    <3>2. CASE d # c
      <4>1. d \in C!Rows(m.ages) /\ d \notin gone
        BY <1>7, <2>1, <3>2 DEF C!Rows
      <4>2. playerOf[d] # playerOf[c]
        BY <3>2, <4>1 DEF C!RivalsOf
      <4> QED BY <1>0, <1>8, <4>1, <4>2 DEF SlotsFit, C!Rows
    <3> QED BY <3>1, <3>2
  <2>2. ASSUME NEW p \in Peer, slot[p] \in Conn
        PROVE  playerOf[slot[p]] = p /\ ages[slot[p]] # "none"
    <3>1. CASE p = playerOf[c]
      BY <1>7, <1>8, <3>1
    <3>2. CASE p # playerOf[c]
      BY <1>0, <1>7, <1>8, <2>2, <3>2 DEF SlotsFit, C!RivalsOf
    <3> QED BY <3>1, <3>2
  <2> QED BY <2>1, <2>2
<1>13. Agree(pg.store, mm.store)
  BY <1>10, <1>11, <1>12 DEF Agree, SameRow
<1> QED BY <1>4, <1>13 DEF Alike, pg, mm

(* The fence of a connection goes.                                         *)
LEMMA UnfencingAgrees ==
  ASSUME NEW c, NEW t, NEW m, Agree(t, m)
  PROVE  Agree([t EXCEPT !.fences = @ \ {c}], [m EXCEPT !.fences = @ \ {c}])
<1> DEFINE pg == [t EXCEPT !.fences = @ \ {c}]
           mm == [m EXCEPT !.fences = @ \ {c}]
<1>1. pg \in StoreTable /\ mm \in StoreMaps /\ pg.fences = mm.fences
  BY DEF Agree, StoreTable, StoreMaps
<1>2. pg.ages = t.ages /\ mm.ages = m.ages /\ mm.slot = m.slot
  BY DEF Agree, StoreTable, StoreMaps
<1> QED BY <1>1, <1>2 DEF Agree, SameRow, SlotsFit

-----------------------------------------------------------------------------
(* The calls, one by one: both stores give one answer and agree after it.  *)

(* A claim is refused by both, or taken by both after both have swept.     *)
LEMMA ClaimAgrees ==
  ASSUME playerOf \in [Conn -> Peer], NEW c \in Conn, NEW t, NEW m, Agree(t, m)
  PROVE  Alike(C!PgClaim(t, c), C!MemoryClaim(m, c))
<1>1. t \in StoreTable /\ m \in StoreMaps /\ t.fences = m.fences
  BY DEF Agree
<1>2. Agree(PgSwept(t), C!Swept(m)) /\ PgSwept(t).ages = C!Swept(m).ages
  BY SweepingAgrees
<1>3. CASE c \in t.fences
  <2>1. C!PgClaim(t, c) = [store |-> t, answer |-> C!Refused]
        /\ C!MemoryClaim(m, c) = [store |-> C!Swept(m), answer |-> C!Refused]
    BY <1>1, <1>3 DEF C!PgClaim, C!MemoryClaim
  <2>2. Agree(t, C!Swept(m))
    <3>1. /\ C!Swept(m) \in StoreMaps /\ SlotsFit(C!Swept(m))
          /\ C!Swept(m).fences = t.fences
      BY <1>1, <1>2 DEF Agree, PgSwept, StoreTable
    <3>2. \A d \in Conn :
            C!Swept(m).ages[d] = IF t.ages[d] = "stale" THEN "none" ELSE t.ages[d]
      <4>1. PgSwept(t).ages = [d \in Conn |-> IF d \in C!Stale(t.ages) THEN "none" ELSE t.ages[d]]
        BY <1>1 DEF PgSwept, C!Without, StoreTable
      <4> QED BY <1>2, <4>1 DEF C!Stale
    <3> QED BY <1>1, <3>1, <3>2 DEF Agree, SameRow
  <2> QED BY <2>1, <2>2 DEF Alike
<1>4. CASE c \notin t.fences
  <2>1. C!PgClaim(t, c) = C!PgTaken(t, c) /\ C!MemoryClaim(m, c) = C!MemoryTaken(C!Swept(m), c)
    BY <1>1, <1>4 DEF C!PgClaim, C!MemoryClaim
  <2>2. C!Stale(PgSwept(t).ages) = {} /\ C!PgTaken(PgSwept(t), c) = C!PgTaken(t, c)
    BY <1>1, SweptTwice
  <2> QED BY <1>2, <2>1, <2>2, TakingAgrees
<1> QED BY <1>3, <1>4

(* A connection is restored, unless its fence is gone and Postgres         *)
(* restores it all the same.                                               *)
LEMMA RestoringAgrees ==
  ASSUME playerOf \in [Conn -> Peer], NEW c \in Conn, NEW t, NEW m, Agree(t, m),
         ~(C!PgRestore(t, c).answer /\ c \notin m.fences)
  PROVE  Alike(C!PgRestore(t, c), C!MemoryRestore(m, c))
<1> DEFINE pg == PgSwept(t)
           mm == C!Swept(m)
<1>1. t \in StoreTable /\ m \in StoreMaps /\ t.fences = m.fences
  BY DEF Agree
<1>2. Agree(pg, mm) /\ pg.ages = mm.ages
  BY SweepingAgrees
<1>3. mm.fences = m.fences /\ pg.fences = t.fences
  BY <1>1, <1>2 DEF PgSwept, Agree, StoreTable
<1>4. SlotsFit(mm) /\ mm.slot[playerOf[c]] \in C!MaybeConn
  BY <1>2 DEF Agree, StoreMaps
<1>5. C!Stale(pg.ages) = {}
  BY <1>1, SweptTwice
<1>6. pg.ages = C!Without(t.ages, C!Stale(t.ages))
      /\ pg = [t EXCEPT !.ages = C!Without(t.ages, C!Stale(t.ages))]
  BY <1>1 DEF PgSwept, StoreTable
<1> HIDE DEF mm, pg
<1>7. C!Rows(pg.ages) \cap C!RivalsOf(c) # {} <=> mm.slot[playerOf[c]] \notin {c, NoConn}
  <2>1. ASSUME NEW d \in C!Rows(pg.ages) \cap C!RivalsOf(c)
        PROVE  mm.slot[playerOf[c]] \notin {c, NoConn}
    <3>1. d \in Conn /\ d # c /\ playerOf[d] = playerOf[c] /\ mm.slot[playerOf[d]] = d
      BY <1>2, <1>4, <2>1 DEF SlotsFit, C!Rows, C!RivalsOf
    <3> QED BY <3>1, StoresAssumption
  <2>2. ASSUME mm.slot[playerOf[c]] \notin {c, NoConn}
        PROVE  mm.slot[playerOf[c]] \in C!Rows(pg.ages) \cap C!RivalsOf(c)
    BY <1>2, <1>4, <2>2 DEF SlotsFit, C!Rows, C!RivalsOf, C!MaybeConn
  <2> QED BY <2>1, <2>2
<1>8. CASE C!Rows(pg.ages) \cap C!RivalsOf(c) # {}
  <2>1. C!PgRestore(t, c) = [store |-> pg, answer |-> FALSE]
    BY <1>6, <1>8 DEF C!PgRestore
  <2>2. C!MemoryRestore(m, c) = [store |-> mm, answer |-> FALSE]
    BY <1>7, <1>8 DEF C!MemoryRestore, mm
  <2> QED BY <1>2, <2>1, <2>2 DEF Alike
<1>9. CASE C!Rows(pg.ages) \cap C!RivalsOf(c) = {}
  <2> DEFINE open == [t EXCEPT !.fences = @ \ {c}]
             swept == [pg EXCEPT !.fences = @ \ {c}]
             memory == [mm EXCEPT !.fences = @ \ {c}]
  <2>1. C!PgRestore(t, c) = [store |-> C!PgTaken(open, c).store, answer |-> TRUE]
    BY <1>6, <1>9 DEF C!PgRestore
  <2>2. c \in mm.fences
    BY <1>1, <1>3, <2>1
  <2>3. C!MemoryRestore(m, c) = [store |-> C!MemoryTaken(memory, c).store, answer |-> TRUE]
    BY <1>7, <1>9, <2>2 DEF C!MemoryRestore, mm
  <2>4. C!PgTaken(swept, c) = C!PgTaken(open, c)
    <3>1. open \in StoreTable /\ open.ages = t.ages /\ open.fences = t.fences \ {c}
      BY <1>1 DEF StoreTable
    <3>2. swept.ages = pg.ages /\ swept.fences = t.fences \ {c}
      BY <1>2, <1>3 DEF Agree, StoreTable
    <3>3. PgSwept(open).ages = pg.ages /\ PgSwept(open).fences = t.fences \ {c}
      BY <1>6, <3>1 DEF PgSwept, StoreTable
    <3> HIDE DEF open, swept
    <3>4. C!PgTaken(PgSwept(open), c) = C!PgTaken(open, c)
      BY <3>1, SweptTwice
    <3>5. C!PgTaken(PgSwept(open), c) = C!PgTaken(swept, c)
      BY <3>2, <3>3 DEF C!PgTaken
    <3> QED BY <3>4, <3>5
  <2>5. Agree(swept, memory) /\ swept.ages = memory.ages /\ swept.ages = pg.ages
    <3>1. Agree(swept, memory)
      BY <1>2, UnfencingAgrees
    <3>2. swept.ages = pg.ages /\ memory.ages = mm.ages
      BY <1>2 DEF Agree, StoreTable, StoreMaps
    <3> QED BY <1>2, <3>1, <3>2
  <2> HIDE DEF open, swept, memory
  <2>6. Alike(C!PgTaken(swept, c), C!MemoryTaken(memory, c))
    BY <1>5, <2>5, TakingAgrees
  <2> QED BY <2>1, <2>3, <2>4, <2>6 DEF Alike
<1> QED BY <1>8, <1>9

(* A row that both have, or neither, goes; and with it the slot.           *)
LEMMA ReleasingAgrees ==
  ASSUME playerOf \in [Conn -> Peer], NEW c \in Conn, NEW t, NEW m,
         Agree(t, m), t.ages[c] = m.ages[c]
  PROVE  Alike(C!PgRelease(t, c), C!MemoryRelease(m, c))
<1> DEFINE ages == [m.ages EXCEPT ![c] = "none"]
           slot == C!Vacated(m.slot, {c} \cap C!Rows(m.ages))
           pg == [t EXCEPT !.ages[c] = "none"]
           mm == [m EXCEPT !.ages[c] = "none", !.slot = slot]
<1>0. t \in StoreTable /\ m \in StoreMaps /\ SlotsFit(m) /\ t.fences = m.fences
      /\ \A d \in Conn : SameRow(t, m, d)
  BY DEF Agree
<1>1. pg \in StoreTable /\ pg.fences = t.fences
      /\ \A d \in Conn : pg.ages[d] = IF d = c THEN "none" ELSE t.ages[d]
  BY <1>0 DEF StoreTable, C!Age
<1>2. slot \in [Peer -> C!MaybeConn] /\ \A p \in Peer :
        slot[p] = IF m.ages[c] # "none" /\ p = playerOf[c] THEN NoConn ELSE m.slot[p]
  BY <1>0 DEF C!Vacated, C!Rows, StoreMaps, C!MaybeConn
<1>3. \A r \in StoreMaps : [r EXCEPT !.ages[c] = "none"] \in StoreMaps
                      /\ [r EXCEPT !.ages[c] = "none"].fences = r.fences
                      /\ [r EXCEPT !.ages[c] = "none"].ages = [r.ages EXCEPT ![c] = "none"]
  BY DEF StoreMaps, C!Age
<1>4. \A r \in StoreMaps, x \in [Peer -> C!MaybeConn] :
        [r EXCEPT !.slot = x] \in StoreMaps /\ [r EXCEPT !.slot = x].fences = r.fences
        /\ [r EXCEPT !.slot = x].ages = r.ages /\ [r EXCEPT !.slot = x].slot = x
  BY DEF StoreMaps
<1> DEFINE mid == [m EXCEPT !.ages[c] = "none"]
<1>5. mm = [mid EXCEPT !.slot = slot]
  OBVIOUS
<1>5a. mid \in StoreMaps /\ mid.fences = m.fences /\ mid.ages = ages
  BY <1>0, <1>3
<1> HIDE DEF slot, mid, mm, ages
<1>6. mm \in StoreMaps /\ mm.fences = m.fences /\ mm.slot = slot /\ mm.ages = ages
  <2>1. LET r == [mid EXCEPT !.slot = slot] IN
        r \in StoreMaps /\ r.fences = mid.fences /\ r.ages = mid.ages /\ r.slot = slot
    BY <1>2, <1>4, <1>5a
  <2> QED BY <1>5, <1>5a, <2>1
<1>7. \A d \in Conn : mm.ages[d] = IF d = c THEN "none" ELSE m.ages[d]
  BY <1>0, <1>6 DEF StoreMaps, ages
<1>8. C!PgRelease(t, c) = [store |-> pg, answer |-> c \in C!Rows(t.ages)]
      /\ C!MemoryRelease(m, c) = [store |-> mm, answer |-> c \in C!Rows(m.ages)]
  BY DEF C!PgRelease, C!MemoryRelease, slot, mm
<1> HIDE DEF pg, mm, ages
<1>9. SlotsFit(mm)
  BY <1>0, <1>2, <1>6, <1>7, StoresAssumption DEF SlotsFit
<1>10. Agree(pg, mm)
  BY <1>0, <1>1, <1>6, <1>7, <1>9 DEF Agree, SameRow
<1>11. c \in C!Rows(t.ages) <=> c \in C!Rows(m.ages)
  BY DEF C!Rows
<1> QED BY <1>8, <1>10, <1>11 DEF Alike

(* A fence is taken, and told of.                                          *)
LEMMA RetiredAgrees ==
  ASSUME NEW c, NEW t, NEW m, Agree(t, m)
  PROVE  Alike(C!PgTakeRetired(t, c), C!MemoryTakeRetired(m, c))
<1>1. t.fences = m.fences
  BY DEF Agree
<1> QED BY <1>1, UnfencingAgrees DEF Alike, C!PgTakeRetired, C!MemoryTakeRetired

(* Postgres sweeps before it lists, the store in memory leaves out what is *)
(* past its time.                                                          *)
LEMMA ListingAgrees ==
  ASSUME NEW t, NEW m, Agree(t, m)
  PROVE  Alike(C!PgList(t), C!MemoryList(m))
<1>0. t \in StoreTable /\ m \in StoreMaps /\ t.fences = m.fences /\ SlotsFit(m)
      /\ \A d \in Conn : SameRow(t, m, d)
  BY DEF Agree
<1>1. C!PgList(t) = [store |-> PgSwept(t), answer |-> C!Rows(C!Without(t.ages, C!Stale(t.ages)))]
  BY DEF C!PgList, PgSwept
<1>2. PgSwept(t) \in StoreTable /\ PgSwept(t).fences = t.fences
      /\ PgSwept(t).ages = C!Without(t.ages, C!Stale(t.ages))
      /\ \A c \in Conn : PgSwept(t).ages[c] = IF t.ages[c] = "stale" THEN "none" ELSE t.ages[c]
  BY <1>0 DEF PgSwept, C!Without, C!Stale, StoreTable, C!Age
<1>3. Agree(PgSwept(t), m)
  BY <1>0, <1>2 DEF Agree, SameRow
<1>4. C!Rows(C!Without(t.ages, C!Stale(t.ages))) = C!Rows(m.ages) \ C!Stale(m.ages)
  BY <1>0, <1>2 DEF C!Rows, C!Stale, SameRow
<1> QED BY <1>1, <1>3, <1>4 DEF Alike, C!MemoryList

(* All rows go and are fenced.                                             *)
LEMMA DeletingAgrees ==
  ASSUME playerOf \in [Conn -> Peer], NEW t, NEW m, Agree(t, m), t.ages = m.ages
  PROVE  Alike(C!PgDelete(t), C!MemoryDelete(m))
<1>0. t \in StoreTable /\ m \in StoreMaps /\ SlotsFit(m) /\ t.fences = m.fences
  BY DEF Agree
<1> DEFINE none == C!Without(m.ages, Conn)
           slot == C!Vacated(m.slot, C!Rows(m.ages))
           fences == m.fences \cup C!Rows(m.ages)
           mm == [ages |-> none, slot |-> slot, fences |-> fences]
           pg == [ages |-> none, fences |-> fences]
<1>1. none \in [Conn -> C!Age] /\ \A c \in Conn : none[c] = "none"
  BY DEF C!Without, C!Age
<1>2. slot \in [Peer -> C!MaybeConn] /\ \A p \in Peer : slot[p] =
        IF \E c \in Conn : m.ages[c] # "none" /\ playerOf[c] = p THEN NoConn ELSE m.slot[p]
  BY <1>0 DEF C!Vacated, C!Rows, StoreMaps, C!MaybeConn
<1>3. fences \in SUBSET Conn
  BY <1>0 DEF C!Rows, StoreMaps
<1> HIDE DEF none, slot, fences
<1>4. pg \in StoreTable /\ mm \in StoreMaps
  BY <1>1, <1>2, <1>3 DEF StoreTable, StoreMaps
<1>5. \A p \in Peer : slot[p] \notin Conn
  BY <1>0, <1>2, StoresAssumption DEF SlotsFit
<1>6. Agree(pg, mm)
  BY <1>1, <1>4, <1>5 DEF Agree, SameRow, SlotsFit
<1>7. C!PgDelete(t) = [store |-> pg, answer |-> C!Rows(m.ages)]
      /\ C!MemoryDelete(m) = [store |-> mm, answer |-> C!Rows(m.ages)]
  BY <1>0 DEF C!PgDelete, C!MemoryDelete, none, slot, fences
<1> QED BY <1>6, <1>7 DEF Alike

(* Time passes for both.                                                   *)
LEMMA ExpiringAgrees ==
  ASSUME NEW c \in Conn, NEW t, NEW m, Agree(t, m), t.ages[c] = "fresh"
  PROVE  Agree([t EXCEPT !.ages = C!Grown(@, c)], [m EXCEPT !.ages = C!Grown(@, c)])
<1> DEFINE pg == [t EXCEPT !.ages = C!Grown(@, c)]
           mm == [m EXCEPT !.ages = C!Grown(@, c)]
<1>0. t \in StoreTable /\ m \in StoreMaps /\ SlotsFit(m) /\ t.fences = m.fences
      /\ \A d \in Conn : SameRow(t, m, d)
  BY DEF Agree
<1>1. \A a \in [Conn -> C!Age] : C!Grown(a, c) \in [Conn -> C!Age] /\ \A d \in Conn :
        C!Grown(a, c)[d] = IF d = c /\ a[c] = "fresh" THEN "stale" ELSE a[d]
  BY DEF C!Grown, C!Age
<1>2. t.ages \in [Conn -> C!Age] /\ m.ages \in [Conn -> C!Age]
  BY <1>0 DEF StoreTable, StoreMaps
<1>3. pg \in StoreTable /\ pg.fences = t.fences /\ pg.ages = C!Grown(t.ages, c)
  BY <1>0, <1>1, <1>2 DEF StoreTable
<1>4. mm \in StoreMaps /\ mm.fences = m.fences /\ mm.slot = m.slot /\ mm.ages = C!Grown(m.ages, c)
  BY <1>0, <1>1, <1>2 DEF StoreMaps
<1> HIDE DEF pg, mm
<1>5. m.ages[c] = "fresh"
  BY <1>0 DEF SameRow
<1>6. \A d \in Conn : SameRow(pg, mm, d)
  BY <1>0, <1>1, <1>2, <1>3, <1>4, <1>5 DEF SameRow
<1>7. SlotsFit(mm)
  BY <1>0, <1>1, <1>2, <1>4, <1>5 DEF SlotsFit
<1>8. Agree(pg, mm)
  BY <1>0, <1>3, <1>4, <1>6, <1>7 DEF Agree
<1> QED BY <1>8 DEF pg, mm

-----------------------------------------------------------------------------
(* What a call leaves, and a step that calls neither store.                *)
AgreedStores == ~parted => answers[1] = answers[2] /\ Agree(table, maps)

(* After a call the stores agree, or their differing is known.             *)
LEMMA CallAgrees ==
  ASSUME NEW pg, NEW memory, NEW known, ~known => Alike(pg, memory),
         C!Both(pg, memory, known), playerOf' = playerOf
  PROVE  AgreedStores'
<1> SUFFICES ASSUME ~parted' PROVE (answers[1] = answers[2] /\ Agree(table, maps))'
  BY DEF AgreedStores
<1>1. ~known /\ table' = pg.store /\ maps' = memory.store
      /\ answers' = <<pg.answer, memory.answer>>
  BY DEF C!Both
<1>2. pg.answer = memory.answer /\ Agree(pg.store, memory.store)
  BY <1>1 DEF Alike
<1>3. ASSUME NEW t, NEW m, Agree(t, m), table' = t, maps' = m PROVE Agree(table, maps)'
  BY <1>3 DEF Agree, StoreTable, StoreMaps, SameRow, SlotsFit
<1>4. Agree(table, maps)'
  BY <1>1, <1>2, <1>3
<1> QED BY <1>1, <1>2, <1>4

(* Without a call they go on agreeing.                                     *)
LEMMA NoCallAgrees ==
  ASSUME AgreedStores, UNCHANGED <<table, maps, answers, parted, playerOf>>
  PROVE  AgreedStores'
BY DEF AgreedStores, Agree, SameRow, SlotsFit

(* Every step is one call, of both stores, or none.                        *)
LEMMA StepAgrees ==
  ASSUME StoresInv, C!Next PROVE AgreedStores'
<1>0. /\ playerOf \in [Conn -> Peer] /\ playerOf' = playerOf
      /\ pushed \in [Conn -> C!MaybeConn] /\ AgreedStores
  BY DEF StoresInv, C!Next, AgreedStores
<1> USE <1>0
<1>1. ASSUME NEW c \in Conn, C!ReleaseOf(c) PROVE AgreedStores'
  <2>1. ~parted /\ C!Both(C!PgRelease(table, c), C!MemoryRelease(maps, c), c \in C!HalfSwept)
    BY <1>1 DEF C!ReleaseOf, C!Both
  <2>2. Agree(table, maps)
    BY <2>1 DEF AgreedStores
  <2>3. c \notin C!HalfSwept => table.ages[c] = maps.ages[c]
    BY <2>2 DEF C!HalfSwept, Agree, SameRow
  <2>4. c \notin C!HalfSwept => Alike(C!PgRelease(table, c), C!MemoryRelease(maps, c))
    BY <2>2, <2>3, ReleasingAgrees
  <2> QED BY <2>1, <2>4, CallAgrees
<1>2. ASSUME NEW c \in Conn, C!Claim(c) PROVE AgreedStores'
  <2>1. ~parted /\ C!Both(C!PgClaim(table, c), C!MemoryClaim(maps, c), C!NoKnown)
    BY <1>2 DEF C!Claim, C!Both
  <2>2. Agree(table, maps)
    BY <2>1 DEF AgreedStores
  <2>3. Alike(C!PgClaim(table, c), C!MemoryClaim(maps, c))
    BY <2>2, ClaimAgrees
  <2> QED BY <2>1, <2>3, CallAgrees
<1>3. ASSUME NEW c \in Conn, C!Enqueue(c) \/ C!Attached(c) \/ C!GiveUp(c) \/ C!Close(c)
      PROVE  AgreedStores'
  BY <1>3, NoCallAgrees DEF C!Enqueue, C!Attached, C!GiveUp, C!Close
<1>4. ASSUME NEW c \in Conn, C!AttachFails(c) PROVE AgreedStores'
  BY <1>1, <1>4 DEF C!AttachFails
<1>5. ASSUME NEW c \in Conn, C!Restore(c) PROVE AgreedStores'
  <2> DEFINE t == pushed[c]
             known == C!PgRestore(table, t).answer /\ t \notin maps.fences
  <2>1. ~parted /\ t \in Conn /\ C!Both(C!PgRestore(table, t), C!MemoryRestore(maps, t), known)
    BY <1>5 DEF C!Restore, C!Both, C!MaybeConn
  <2>2. Agree(table, maps)
    BY <2>1 DEF AgreedStores
  <2>3. ~known => Alike(C!PgRestore(table, t), C!MemoryRestore(maps, t))
    BY <2>1, <2>2, RestoringAgrees
  <2> HIDE DEF t, known
  <2> QED BY <2>1, <2>3, CallAgrees
<1>6. ASSUME NEW c \in Conn, C!Recheck(c) PROVE AgreedStores'
  <2>1. CASE C!HasSender(pushed[c])
    BY <1>6, <2>1, NoCallAgrees DEF C!Recheck
  <2>2. CASE ~C!HasSender(pushed[c])
    <3>1. C!ReleaseOf(pushed[c])
      BY <1>6, <2>2 DEF C!Recheck
    <3>2. pushed[c] \in Conn
      BY <1>6 DEF C!Recheck, StoresInv
    <3> QED BY <1>1, <3>1, <3>2
  <2> QED BY <2>1, <2>2
<1>7. ASSUME NEW c \in Conn, C!Beat(c) PROVE AgreedStores'
  <2>1. ~parted /\ C!Both([store |-> table, answer |-> C!PgRenew(table, c)],
                        [store |-> maps, answer |-> C!MemoryRenew(maps, c)], C!NoKnown)
    BY <1>7 DEF C!Beat, C!Both
  <2>2. Agree(table, maps)
    BY <2>1 DEF AgreedStores
  <2>3. C!PgRenew(table, c) = C!MemoryRenew(maps, c)
    BY <2>2 DEF C!PgRenew, C!MemoryRenew, Agree, SameRow
  <2>4. Alike([store |-> table, answer |-> C!PgRenew(table, c)],
              [store |-> maps, answer |-> C!MemoryRenew(maps, c)])
    BY <2>2, <2>3 DEF Alike
  <2> QED BY <2>1, <2>4, CallAgrees
<1>8. ASSUME NEW c \in Conn, C!Release(c) PROVE AgreedStores'
  BY <1>1, <1>8 DEF C!Release
<1>9. ASSUME NEW c \in Conn, C!TakeRetired(c) PROVE AgreedStores'
  <2>1. ~parted /\ C!Both(C!PgTakeRetired(table, c), C!MemoryTakeRetired(maps, c), C!NoKnown)
    BY <1>9 DEF C!TakeRetired, C!Both
  <2>2. Alike(C!PgTakeRetired(table, c), C!MemoryTakeRetired(maps, c))
    BY <2>1, RetiredAgrees DEF AgreedStores
  <2> QED BY <2>1, <2>2, CallAgrees
<1>10. ASSUME NEW c \in Conn, C!Expire(c) PROVE AgreedStores'
  <2>1. ~parted /\ Agree(table, maps) /\ table.ages[c] = "fresh"
    BY <1>10 DEF C!Expire, AgreedStores
  <2> DEFINE pg == [table EXCEPT !.ages = C!Grown(@, c)]
             memory == [maps EXCEPT !.ages = C!Grown(@, c)]
  <2>2. Agree(pg, memory)
    BY <2>1, ExpiringAgrees
  <2>3. table' = pg /\ maps' = memory /\ answers' = answers /\ parted' = parted
    BY <1>10 DEF C!Expire
  <2> HIDE DEF pg, memory
  <2>4. ASSUME NEW t, NEW m, Agree(t, m), table' = t, maps' = m PROVE Agree(table, maps)'
    BY <2>4 DEF Agree, StoreTable, StoreMaps, SameRow, SlotsFit
  <2>5. Agree(table, maps)'
    BY <2>2, <2>3, <2>4
  <2> QED BY <2>3, <2>5 DEF AgreedStores
<1>11. CASE C!List
  <2>1. ~parted /\ C!Both(C!PgList(table), C!MemoryList(maps), C!NoKnown)
    BY <1>11 DEF C!List, C!Both
  <2>2. Alike(C!PgList(table), C!MemoryList(maps))
    BY <2>1, ListingAgrees DEF AgreedStores
  <2> QED BY <2>1, <2>2, CallAgrees
<1>12. CASE C!Delete
  <2>1. ~parted /\ C!Both(C!PgDelete(table), C!MemoryDelete(maps), C!HalfSwept # {})
    BY <1>12 DEF C!Delete, C!Both
  <2>2. Agree(table, maps)
    BY <2>1 DEF AgreedStores
  <2>3. C!HalfSwept = {} => table.ages = maps.ages
    BY <2>2 DEF C!HalfSwept, Agree, SameRow, StoreTable, StoreMaps
  <2>4. C!HalfSwept = {} => Alike(C!PgDelete(table), C!MemoryDelete(maps))
    BY <2>2, <2>3, DeletingAgrees
  <2> QED BY <2>1, <2>4, CallAgrees
<1> QED
  BY <1>2, <1>3, <1>4, <1>5, <1>6, <1>7, <1>8, <1>9, <1>10, <1>11, <1>12 DEF C!Next

(* The registry names connections.                                         *)
LEMMA RegistryKept ==
  ASSUME StoresInv, C!Next PROVE registry' \in [Replica \X Peer -> C!MaybeConn]
<1>0. /\ playerOf \in [Conn -> Peer] /\ pushed \in [Conn -> C!MaybeConn]
      /\ registry \in [Replica \X Peer -> C!MaybeConn]
      /\ \A c \in Conn : stage[c] = "rechecking" => pushed[c] \in Conn
  BY DEF StoresInv
<1>1. \A c \in Conn : C!Here(c) \in Replica \X Peer
  BY <1>0, StoresAssumption DEF C!Here
<1>2. \A c, d \in Conn : [registry EXCEPT ![C!Here(c)] = d] \in [Replica \X Peer -> C!MaybeConn]
  BY <1>0, <1>1 DEF C!MaybeConn
<1>3. \A c \in Conn : C!Detached(c) \in [Replica \X Peer -> C!MaybeConn]
  BY <1>0, <1>1 DEF C!Detached, C!MaybeConn
<1>4. ASSUME NEW c \in Conn, C!Restore(c) PROVE registry' \in [Replica \X Peer -> C!MaybeConn]
  <2>1. pushed[c] \in Conn
    BY <1>0, <1>4 DEF C!Restore, C!MaybeConn
  <2> QED BY <1>0, <1>2, <1>4, <2>1 DEF C!Restore
<1>5. ASSUME NEW c \in Conn, C!Recheck(c) PROVE registry' \in [Replica \X Peer -> C!MaybeConn]
  BY <1>0, <1>3, <1>5 DEF C!Recheck
<1>6. ASSUME NEW c \in Conn,
             \/ C!Claim(c) \/ C!Enqueue(c) \/ C!Attached(c) \/ C!AttachFails(c)
             \/ C!GiveUp(c) \/ C!Beat(c)
             \/ C!Close(c) \/ C!Release(c) \/ C!TakeRetired(c) \/ C!Expire(c)
      PROVE  registry' \in [Replica \X Peer -> C!MaybeConn]
  <2>1. CASE C!Enqueue(c)
    BY <1>2, <2>1 DEF C!Enqueue
  <2>2. CASE C!AttachFails(c) \/ C!Release(c) \/ C!TakeRetired(c)
    BY <1>0, <1>3, <2>2 DEF C!AttachFails, C!Release, C!TakeRetired
  <2>3. CASE C!Claim(c) \/ C!Attached(c) \/ C!GiveUp(c) \/ C!Beat(c) \/ C!Close(c) \/ C!Expire(c)
    BY <1>0, <2>3 DEF C!Claim, C!Attached, C!GiveUp, C!Beat, C!Close, C!Expire, C!sockets
  <2> QED BY <1>6, <2>1, <2>2, <2>3
<1>7. C!List \/ C!Delete => registry' \in [Replica \X Peer -> C!MaybeConn]
  BY <1>0 DEF C!List, C!Delete, C!sockets
<1> QED BY <1>4, <1>5, <1>6, <1>7 DEF C!Next

(* A socket that looks again at whom it restored has pushed somebody out.  *)
LEMMA PushedKept ==
  ASSUME StoresInv, C!Next
  PROVE  /\ stage' \in [Conn -> SocketStage] /\ pushed' \in [Conn -> C!MaybeConn]
         /\ \A c \in Conn : stage'[c] = "rechecking" => pushed'[c] \in Conn
<1>0. /\ stage \in [Conn -> SocketStage] /\ pushed \in [Conn -> C!MaybeConn]
      /\ \A c \in Conn : stage[c] = "rechecking" => pushed[c] \in Conn
      /\ registry \in [Replica \X Peer -> C!MaybeConn] /\ playerOf \in [Conn -> Peer]
  BY DEF StoresInv
<1> DEFINE Kept == /\ stage' \in [Conn -> SocketStage] /\ pushed' \in [Conn -> C!MaybeConn]
                   /\ \A c \in Conn : stage'[c] = "rechecking" => pushed'[c] \in Conn
<1>1. ASSUME NEW c \in Conn, NEW s \in SocketStage \ {"rechecking"}, NEW t \in C!MaybeConn,
             stage' = [stage EXCEPT ![c] = s],
             pushed' = [pushed EXCEPT ![c] = t]
      PROVE  Kept
  BY <1>0, <1>1
<1>2. ASSUME NEW c \in Conn, C!Fail(c) PROVE Kept
  <2>1. PICK s \in {"closing", "gone"} : stage' = [stage EXCEPT ![c] = s]
    BY <1>2 DEF C!Fail, C!GoTo
  <2>2. s \in SocketStage \ {"rechecking"} /\ NoConn \in C!MaybeConn
    BY DEF SocketStage, C!MaybeConn
  <2>3. pushed' = [pushed EXCEPT ![c] = NoConn]
    BY <1>2 DEF C!Fail
  <2> QED BY <1>1, <2>1, <2>2, <2>3
<1>3. ASSUME NEW c \in Conn, NEW s \in SocketStage \ {"rechecking"}, C!GoTo(c, s), pushed' = pushed
      PROVE  Kept
  BY <1>0, <1>3 DEF C!GoTo
<1>4. ASSUME pushed' = pushed, stage' = stage PROVE Kept
  BY <1>0, <1>4
<1> HIDE DEF Kept
<1>5. {"new", "claimed", "acking", "on", "undone", "closing", "unfencing", "gone"}
        \subseteq SocketStage \ {"rechecking"}
  BY DEF SocketStage
<1>6. ASSUME NEW c \in Conn, C!Claim(c) PROVE Kept
  <2>1. CASE c \in table.fences
    BY <1>2, <1>6, <2>1 DEF C!Claim
  <2>2. CASE c \notin table.fences
    <3>1. PICK t \in C!MaybeConn : pushed' = [pushed EXCEPT ![c] = t]
      BY <1>6, <2>2 DEF C!Claim
    <3>2. stage' = [stage EXCEPT ![c] = "claimed"]
      BY <1>6, <2>2 DEF C!Claim, C!GoTo
    <3> QED BY <1>1, <1>5, <3>1, <3>2
  <2> QED BY <2>1, <2>2
<1>7. ASSUME NEW c \in Conn, C!Enqueue(c) PROVE Kept
  <2>1. C!Here(c) \in Replica \X Peer
    BY <1>0, StoresAssumption DEF C!Here
  <2>2. PICK t \in C!MaybeConn : pushed' = [pushed EXCEPT ![c] = t]
    <3>1. pushed[c] \in C!MaybeConn /\ registry[C!Here(c)] \in C!MaybeConn
      BY <1>0, <2>1
    <3> QED BY <1>7, <3>1 DEF C!Enqueue
  <2>3. stage' = [stage EXCEPT ![c] = "acking"]
    BY <1>7 DEF C!Enqueue, C!GoTo
  <2> QED BY <1>1, <1>5, <2>2, <2>3
<1>8. ASSUME NEW c \in Conn, C!Attached(c) PROVE Kept
  <2>1. stage' = [stage EXCEPT ![c] = "on"] /\ pushed' = [pushed EXCEPT ![c] = NoConn]
    BY <1>8 DEF C!Attached, C!GoTo
  <2> QED BY <1>1, <1>5, <2>1 DEF C!MaybeConn
<1>9. ASSUME NEW c \in Conn, C!GiveUp(c) \/ C!Recheck(c) PROVE Kept
  BY <1>2, <1>9 DEF C!GiveUp, C!Recheck
<1>10. ASSUME NEW c \in Conn, C!Restore(c) PROVE Kept
  <2>1. C!Fail(c) \/ (C!GoTo(c, "rechecking") /\ pushed' = pushed)
    BY <1>10 DEF C!Restore
  <2>2. CASE C!GoTo(c, "rechecking") /\ pushed' = pushed
    <3>1. pushed[c] \in Conn
      BY <1>0, <1>10 DEF C!Restore, C!MaybeConn
    <3> QED BY <1>0, <2>2, <3>1 DEF Kept, C!GoTo, SocketStage
  <2> QED BY <1>2, <2>1, <2>2
<1>11. ASSUME NEW c \in Conn,
              \/ C!AttachFails(c) \/ C!Beat(c) \/ C!Close(c) \/ C!Release(c) \/ C!TakeRetired(c)
              \/ C!Expire(c)
       PROVE  Kept
  <2>1. pushed' = pushed /\ (stage' = stage \/ \E s \in {"undone", "closing", "gone", "unfencing"} :
                               C!GoTo(c, s))
    BY <1>11 DEF C!AttachFails, C!Beat, C!Close, C!Release, C!TakeRetired, C!Expire,
                  C!sockets, C!GoTo
  <2> QED BY <1>3, <1>4, <1>5, <2>1
<1>12. C!List \/ C!Delete => Kept
  BY <1>4 DEF C!List, C!Delete, C!sockets
<1>13. Kept
  BY <1>6, <1>7, <1>8, <1>9, <1>10, <1>11, <1>12 DEF C!Next
<1> QED BY <1>13 DEF Kept

(* The invariant is what the property says, of rows as well as of answers. *)
LEMMA StoresInvKept == StoresInv /\ [C!Next]_C!vars => StoresInv'
<1>1. ASSUME StoresInv, C!Next PROVE StoresInv'
  <2>1. AgreedStores'
    BY <1>1, StepAgrees
  <2>2. playerOf' = playerOf
    BY <1>1 DEF C!Next
  <2> QED BY <1>1, <2>1, <2>2, RegistryKept, PushedKept DEF StoresInv, AgreedStores
<1>2. ASSUME StoresInv, UNCHANGED C!vars PROVE StoresInv'
  <2>1. AgreedStores'
    BY <1>2, NoCallAgrees DEF StoresInv, AgreedStores, C!vars, C!sockets
  <2> QED BY <1>2, <2>1 DEF StoresInv, AgreedStores, C!vars, C!sockets
<1> QED BY <1>1, <1>2

(* What the run checks of the stores.                                      *)
LEMMA StoresInvAgrees == StoresInv => C!StoresAgree
<1> SUFFICES ASSUME StoresInv, ~parted
             PROVE  /\ answers[1] = answers[2] /\ table.fences = maps.fences
                    /\ \A c \in Conn : table.ages[c] = maps.ages[c] \/ c \in C!HalfSwept
                    /\ \A p \in Peer :
                         {maps.slot[p]} \ {NoConn} = {c \in C!Rows(maps.ages) : playerOf[c] = p}
  BY DEF C!StoresAgree
<1>1. answers[1] = answers[2] /\ Agree(table, maps)
  BY DEF StoresInv
<1>2. \A c \in Conn : table.ages[c] = maps.ages[c] \/ c \in C!HalfSwept
  BY <1>1 DEF Agree, SameRow, C!HalfSwept
<1>3. ASSUME NEW p \in Peer
      PROVE  {maps.slot[p]} \ {NoConn} = {c \in C!Rows(maps.ages) : playerOf[c] = p}
  <2>1. SlotsFit(maps) /\ maps.slot[p] \in C!MaybeConn
    BY <1>1 DEF Agree, StoreMaps
  <2> QED BY <2>1, StoresAssumption DEF SlotsFit, C!Rows, C!MaybeConn
<1> QED BY <1>1, <1>2, <1>3 DEF Agree

-----------------------------------------------------------------------------
(* The models side by side: a behaviour is of one of them. *)

HostsInv    == IInv /\ HInv
AccountsInv == HonestInv /\ LimitInv

PartsInv ==
  /\ part = "hosts" => HostsInv
  /\ part = "seats" => SeatsInv
  /\ part = "accounts" => AccountsInv
  /\ part = "sprites" => SpritesInv
  /\ part = "stores" => StoresInv

(* Signing in and limiting do not disturb one another.                     *)
LEMMA AccountsInvKept ==
  ASSUME AccountsInv, [A!Next]_A!vars PROVE AccountsInv'
<1>1. LimitInv'
  BY LimitKept DEF AccountsInv, HonestInv, AccountTypes
<1>2. HonestInv'
  <2>1. CASE A!Next
    BY <2>1, AccountsAssumption, AccountTypesKept, OnlyGrows, HonestyKept, OwnershipKept
       DEF AccountsInv, HonestInv
  <2>2. CASE UNCHANGED A!vars
    BY <2>2 DEF A!vars, AccountsInv, HonestInv, AccountTypes, RequestsHonest, RequestHonest,
                CookiesOwned, Owns
  <2> QED BY <2>1, <2>2
<1> QED BY <1>1, <1>2 DEF AccountsInv

(* Nor do loads and changes of sprites.                                    *)
LEMMA SpritesInvKept ==
  ASSUME SpritesInv, [P!Next]_P!vars PROVE SpritesInv'
<1>1. CASE P!Next
  BY <1>1, SpritesAssumption, SpriteTypesKept, ExplanationsKept DEF SpritesInv
<1>2. CASE UNCHANGED P!vars
  BY <1>2 DEF P!vars, SpritesInv, SpriteTypes, LoadsExplained, P!OldSpritesExplained,
              P!Loaded, Explained
<1> QED BY <1>1, <1>2

(* Each model keeps its own invariant, and the others stand still.         *)
THEOREM PartsAreSound == AnySpec => []PartsInv
<1>1. ASSUME AnyInit PROVE PartsInv
  <2>1. CASE part = "hosts" /\ Init
    BY <2>1, InitIsSound, InitIsHosted DEF PartsInv, HostsInv
  <2>2. CASE part = "seats" /\ S!Init
    BY <2>2, InitSeated DEF PartsInv
  <2>3. CASE part = "accounts" /\ A!Init
    BY <2>3, InitHonest, InitLimited, AccountsAssumption DEF PartsInv, AccountsInv
  <2>4. CASE part = "sprites" /\ P!Init
    BY <2>4, InitExplained, SpritesAssumption DEF PartsInv
  <2>5. CASE part = "stores" /\ C!Init
    BY <2>5, InitAgrees DEF PartsInv
  <2> QED BY <1>1, <2>1, <2>2, <2>3, <2>4, <2>5 DEF AnyInit
<1>2. ASSUME PartsInv,
             [AnyNext]_<<part, vars, seatVars, accountVars, spriteVars, storeVars>>
      PROVE  PartsInv'
  <2>1. part' = part
    BY <1>2 DEF AnyNext
  <2>2. CASE part = "hosts"
    <3>1. [Next]_vars /\ IInv /\ HInv
      BY <1>2, <2>2 DEF AnyNext, PartsInv, HostsInv
    <3>2. IInv'
      BY <3>1, NextKeepsInvariant
    <3>3. HInv'
      BY <3>1, <3>2, HostKept
    <3> QED BY <2>1, <2>2, <3>2, <3>3 DEF PartsInv, HostsInv
  <2>3. CASE part = "seats"
    <3>1. [S!Next]_S!vars /\ SeatsInv
      BY <1>2, <2>3 DEF AnyNext, PartsInv, seatVars, S!vars, S!tables
    <3> QED BY <2>1, <2>3, <3>1, SeatsInvKept DEF PartsInv
  <2>4. CASE part = "accounts"
    <3>1. [A!Next]_A!vars /\ AccountsInv
      BY <1>2, <2>4 DEF AnyNext, PartsInv, accountVars, A!vars
    <3> QED BY <2>1, <2>4, <3>1, AccountsInvKept DEF PartsInv
  <2>5. CASE part = "sprites"
    <3>1. [P!Next]_P!vars /\ SpritesInv
      BY <1>2, <2>5 DEF AnyNext, PartsInv, spriteVars, P!vars
    <3> QED BY <2>1, <2>5, <3>1, SpritesInvKept DEF PartsInv
  <2>6. CASE part = "stores"
    <3>1. [C!Next]_C!vars /\ StoresInv
      BY <1>2, <2>6 DEF AnyNext, PartsInv, storeVars, C!vars, C!sockets
    <3> QED BY <2>1, <2>6, <3>1, StoresInvKept DEF PartsInv
  <2> QED BY <2>1, <2>2, <2>3, <2>4, <2>5, <2>6 DEF PartsInv
<1> QED BY <1>1, <1>2, PTL DEF AnySpec

(* Every variable of Seats and Accounts keeps its type: a key opens a      *)
(* player's seat or none, rows have ids that were drawn, and no session is *)
(* stored with sprites inline that were drawn.                             *)
THEOREM SeatsAreTyped == AnySpec => []SeatTypesOK
<1>1. PartsInv => SeatTypesOK
  <2>1. AccountsInv => A!TypeOK
    BY DEF AccountsInv, HonestInv, AccountTypes, SignIn, LimitInv, BucketsTyped, Meter, A!TypeOK
  <2> QED BY <2>1, SeatsInvTyped DEF PartsInv, SeatTypesOK
<1> QED BY <1>1, PartsAreSound, PTL

(* Whatever joins, reloads, disconnects, resets and restarts come: while   *)
(* somebody is online a workshop lacks a host only if its owner never      *)
(* joined, the host is a player, and an owner who is online is the host.   *)
THEOREM HostsAreDueHere == AnySpec => []HostWhenDue
<1>1. PartsInv => HostWhenDue
  BY DEF PartsInv, HostsInv, HInv, Hosted, FitForHost, HostDue, HostWhenDue, HostIsDue,
         HostlessOnlyWithoutOwner, ConnectedOwnerHosts
<1> QED BY <1>1, PartsAreSound, PTL

(* However joins, choices, redraws, deletions and reloads interleave, and  *)
(* whichever saves fail, no two players of a workshop have one character.  *)
THEOREM CharactersAreApart == AnySpec => []NobodySharesCharacter
<1>1. PartsInv => NobodySharesCharacter
  BY SeatsInvApart DEF PartsInv, NobodySharesCharacter
<1> QED BY <1>1, PartsAreSound, PTL

(* Sprites a seat refers to have been stored, though a redraw may fail     *)
(* half-way; and a replica serves old sprites only while its own eviction  *)
(* is to come, or because another made the change, or because a load had   *)
(* read before it.                                                         *)
THEOREM SpritesStaySound == AnySpec => []SpritesAreSound
<1>1. PartsInv => SpritesAreSound
  BY SeatsInvSprites DEF PartsInv, SpritesInv, SpritesAreSound
<1> QED BY <1>1, PartsAreSound, PTL

(* Whatever requests overlap, time out or break, a browser has the cookie  *)
(* only of accounts whose password it has typed; and whenever its requests *)
(* come, a key passes less than twice its limit in the time of a window.   *)
THEOREM AccountsStaySafe == AnySpec => []AccountsAreSafe
<1>1. AccountsInv => A!CookiesAreEarned
  BY DEF AccountsInv, HonestInv, AccountTypes, CookiesOwned, Owns, A!CookiesAreEarned
<1>2. PartsInv => AccountsAreSafe
  BY <1>1, LimitInvHolds DEF PartsInv, AccountsInv, AccountsAreSafe
<1> QED BY <1>2, PartsAreSound, PTL

(* Whatever order sockets attach, beat, are pushed out and go in, the      *)
(* stores answer alike, but for rows past their time and connections       *)
(* restored without a fence.                                               *)
THEOREM StoresStayAgreed == AnySpec => []StoresAgree
<1>1. PartsInv => StoresAgree
  BY StoresInvAgrees DEF PartsInv, StoresAgree
<1> QED BY <1>1, PartsAreSound, PTL
=============================================================================
