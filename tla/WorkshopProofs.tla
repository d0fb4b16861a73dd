--------------------------- MODULE WorkshopProofs ---------------------------
(***************************************************************************)
(* Safety of one workshop session, for every number of players, accounts   *)
(* and judge runs.  In order: the rotate-by-one of the handover is a       *)
(* bijection between the players and the dragons (enter_phase2); what      *)
(* every operation on a session preserves, and that every step does; that  *)
(* a workshop has the host it is due; that what is stored of it is the     *)
(* game its players were promised (GameFlow); and that the client offers   *)
(* what the server accepts (Offers).                                       *)
(***************************************************************************)
EXTENDS Offers, FiniteSetTheorems, TLAPS

-----------------------------------------------------------------------------
(* Facts about the least and the greatest of some player ids, and the      *)
(* rotation.                                                               *)

(* Every nonempty set of numbers has a least one. *)
LEMMA LeastNumber ==
  ASSUME NEW T \in SUBSET Nat, T # {}
  PROVE  \E m \in T : \A n \in T : m <= n
<1> DEFINE Less == {ss \in Nat \X Nat : ss[1] < ss[2]}
<1>1. Less = OpToRel(<, Nat)
  BY DEF OpToRel
<1>2. IsWellFoundedOn(Less, Nat)
  BY <1>1, NatLessThanWellFounded, Zenon
<1>3. PICK m \in T : \A n \in T : ~ (<<n, m>> \in Less)
  BY <1>2, WFMin
<1>4. ASSUME NEW n \in T PROVE m <= n
  <2>1. m \in Nat /\ n \in Nat
    OBVIOUS
  <2>2. <<n, m>> \in Nat \X Nat /\ <<n, m>>[1] = n /\ <<n, m>>[2] = m
    BY <2>1
  <2>3. n < m => <<n, m>> \in Less
    BY <2>2
  <2>4. <<n, m>> \notin Less
    BY <1>3
  <2> HIDE DEF Less
  <2>5. QED
    BY <2>1, <2>3, <2>4
<1>5. QED
  BY <1>4

(* Every nonempty finite set of numbers has a greatest one: of the subsets *)
(* without a greatest number take a smallest, and put one of its members   *)
(* aside.                                                                  *)
LEMMA GreatestNumber ==
  ASSUME NEW T \in SUBSET Nat, IsFiniteSet(T), T # {}
  PROVE  \E m \in T : \A n \in T : n <= m
<1> DEFINE Topped(A) == \E m \in A : \A n \in A : n <= m
           Bad       == {A \in SUBSET T : A # {} /\ ~Topped(A)}
           Sizes     == {Cardinality(A) : A \in Bad}
<1>1. \A A \in SUBSET T : IsFiniteSet(A) /\ Cardinality(A) \in Nat
  BY FS_Subset, FS_CardinalityType
<1>2. SUFFICES ASSUME Bad # {} PROVE FALSE
  OBVIOUS
<1>3. Sizes \in SUBSET Nat /\ Sizes # {}
  BY <1>1, <1>2
<1>4. PICK k \in Sizes : \A n \in Sizes : k <= n
  BY <1>3, LeastNumber
<1>5. PICK A \in Bad : k = Cardinality(A)
  BY <1>4
<1>6. PICK x : x \in A
  BY <1>5
<1> DEFINE B == A \ {x}
<1>7. B \in SUBSET T /\ Cardinality(B) = k - 1 /\ k \in Nat
  BY <1>1, <1>3, <1>4, <1>5, <1>6, FS_RemoveElement
<1>8. CASE B = {}
  BY <1>5, <1>6, <1>8
<1>9. CASE B # {}
  <2>1. B \notin Bad
    <3>1. B \in Bad => k <= k - 1
      BY <1>4, <1>7
    <3>2. QED
      BY <3>1, <1>7
  <2>2. PICK m \in B : \A n \in B : n <= m
    BY <2>1, <1>7, <1>9
  <2>3. CASE x <= m
    BY <1>5, <2>2, <2>3
  <2>4. CASE m < x
    BY <1>5, <1>6, <2>2, <2>4
  <2>5. QED
    BY <2>3, <2>4, <1>5, <1>6, <2>2
<1>10. QED
  BY <1>8, <1>9

(* First, Earliest and Last pick a member. *)
LEMMA FirstIsMember ==
  ASSUME NEW S \in SUBSET Player, S # {}
  PROVE  First(S) \in S
<1>1. \E p \in S : \A q \in S : p <= q
  BY LeastNumber, PlayerAssumption
<1>2. QED
  BY <1>1 DEF First

LEMMA EarliestIsMember ==
  ASSUME NEW s, s.joinedAt \in [Player -> Nat], NEW S \in SUBSET Player, S # {}
  PROVE  Earliest(s, S) \in S
<1> DEFINE Times == {s.joinedAt[p] : p \in S}
<1>1. Times \in SUBSET Nat /\ Times # {}
  OBVIOUS
<1>2. PICK m \in Times : \A n \in Times : m <= n
  BY <1>1, LeastNumber
<1>3. PICK p \in S : m = s.joinedAt[p]
  BY <1>2
<1>4. \A q \in S : s.joinedAt[p] <= s.joinedAt[q]
  BY <1>2, <1>3
<1>5. QED
  BY <1>4 DEF Earliest

LEMMA LastIsGreatest ==
  ASSUME NEW S \in SUBSET Player, S # {}
  PROVE  Last(S) \in S /\ \A q \in S : q <= Last(S)
<1>1. S \in SUBSET Nat /\ IsFiniteSet(S)
  BY PlayerAssumption, FS_Subset
<1>2. \E p \in S : \A q \in S : q <= p
  BY <1>1, GreatestNumber
<1>3. QED
  BY <1>2 DEF Last

(* Every player is given one of the dragons, and no two the same. *)
LEMMA PreviousIsMember ==
  ASSUME NEW S \in SUBSET Player, NEW p \in S
  PROVE  Previous(S, p) \in S
<1>1. Before(S, p) \in SUBSET S
  BY DEF Before
<1>2. QED
  BY <1>1, LastIsGreatest DEF Previous

LEMMA PreviousIsInjective ==
  ASSUME NEW S \in SUBSET Player, NEW p \in S, NEW q \in S, Previous(S, p) = Previous(S, q)
  PROVE  p = q
<1>1. S \subseteq Nat
  BY PlayerAssumption
<1>2. ASSUME NEW a \in S, NEW b \in S, a < b PROVE Previous(S, a) # Previous(S, b)
  <2>1. a \in Before(S, b) /\ Before(S, b) \in SUBSET Player
    BY <1>2 DEF Before
  <2>2. /\ Previous(S, b) = Last(Before(S, b))
        /\ Previous(S, b) \in Before(S, b)
        /\ a <= Previous(S, b)
    BY <2>1, LastIsGreatest DEF Previous
  <2>3. Previous(S, b) \in S /\ Previous(S, b) < b
    BY <2>2 DEF Before
  <2>4. CASE Before(S, a) = {}
    <3>1. Previous(S, a) = Last(S) /\ Last(S) \in S /\ b <= Last(S)
      BY <2>4, LastIsGreatest DEF Previous
    <3>2. b \in Nat /\ Previous(S, a) \in Nat /\ Previous(S, b) \in Nat
      BY <3>1, <2>3, <1>1
    <3>3. QED
      BY <3>1, <3>2, <2>3
  <2>5. CASE Before(S, a) # {}
    <3>1. Previous(S, a) = Last(Before(S, a)) /\ Before(S, a) \in SUBSET Player
      BY <2>5 DEF Previous, Before
    <3>2. Last(Before(S, a)) \in Before(S, a)
      BY <2>5, <3>1, LastIsGreatest
    <3>3. Previous(S, a) \in S /\ Previous(S, a) < a
      BY <3>1, <3>2 DEF Before
    <3>4. a \in Nat /\ Previous(S, a) \in Nat /\ Previous(S, b) \in Nat
      BY <3>3, <2>3, <1>1
    <3>5. QED
      BY <3>3, <3>4, <2>2
  <2>6. QED
    BY <2>4, <2>5
<1>3. p < q \/ q < p \/ p = q
  BY <1>1
<1>4. QED
  BY <1>2, <1>3

(* And no dragon is left over. *)
LEMMA PreviousIsOnto ==
  ASSUME NEW S \in SUBSET Player, NEW d \in S
  PROVE  \E p \in S : Previous(S, p) = d
<1> DEFINE After == {q \in S : d < q}
<1>1. S \in SUBSET Nat
  BY PlayerAssumption
<1>2. CASE After = {}
  <2>1. PICK p \in S : \A q \in S : p <= q
    BY <1>1, LeastNumber
  <2>2. Before(S, p) = {}
    <3>1. \A q \in S : p \in Nat /\ q \in Nat /\ p <= q
      BY <1>1, <2>1
    <3>2. QED
      BY <3>1 DEF Before
  <2>3. Previous(S, p) = Last(S) /\ Last(S) \in S /\ d <= Last(S)
    BY <2>2, LastIsGreatest DEF Previous
  <2>4. d \in Nat /\ Last(S) \in Nat /\ ~(d < Last(S))
    BY <1>1, <1>2, <2>3
  <2>5. Previous(S, p) = d
    BY <2>3, <2>4
  <2>6. QED
    BY <2>5
<1>3. CASE After # {}
  <2>1. After \in SUBSET Nat
    BY <1>1
  <2>2. PICK p \in After : \A q \in After : p <= q
    BY <2>1, <1>3, LeastNumber
  <2>3. d \in Before(S, p) /\ Before(S, p) \in SUBSET Player
    BY <2>2 DEF Before
  <2>4. /\ Previous(S, p) = Last(Before(S, p))
        /\ Previous(S, p) \in Before(S, p)
        /\ d <= Previous(S, p)
    BY <2>3, LastIsGreatest DEF Previous
  <2>5. Previous(S, p) \in S /\ Previous(S, p) < p
    BY <2>4 DEF Before
  <2>6. d \in Nat /\ p \in Nat /\ Previous(S, p) \in Nat
    BY <2>5, <1>1
  <2>7. ~(d < Previous(S, p))
    BY <2>2, <2>5, <2>6
  <2>8. Previous(S, p) = d
    BY <2>4, <2>6, <2>7
  <2>9. QED
    BY <2>8
<1>4. QED
  BY <1>2, <1>3

(* The dragon a player is given names that player as its next caretaker:   *)
(* the rotation is a bijection.                                            *)
THEOREM RotationIsBijection ==
  ASSUME NEW S \in SUBSET Player
  PROVE  /\ \A d \in S : Following(S, d) \in S /\ Previous(S, Following(S, d)) = d
         /\ \A p \in S : Previous(S, p) \in S /\ Following(S, Previous(S, p)) = p
<1>1. ASSUME NEW d \in S
      PROVE  Following(S, d) \in S /\ Previous(S, Following(S, d)) = d
  BY PreviousIsOnto DEF Following
<1>2. ASSUME NEW p \in S
      PROVE  Previous(S, p) \in S /\ Following(S, Previous(S, p)) = p
  <2>1. Previous(S, p) \in S
    BY PreviousIsMember
  <2>2. /\ Following(S, Previous(S, p)) \in S
        /\ Previous(S, Following(S, Previous(S, p))) = Previous(S, p)
    BY <2>1, <1>1
  <2>3. QED
    BY <2>1, <2>2, PreviousIsInjective
<1>3. QED
  BY <1>1, <1>2

(* Nobody keeps their own dragon unless they are alone. *)
THEOREM RotationMovesEveryDragon ==
  ASSUME NEW S \in SUBSET Player, NEW p \in S, Previous(S, p) = p
  PROVE  S = {p}
<1>1. S \subseteq Nat
  BY PlayerAssumption
<1>2. Before(S, p) = {}
  <2>1. SUFFICES ASSUME Before(S, p) # {} PROVE FALSE
    OBVIOUS
  <2>2. Previous(S, p) = Last(Before(S, p)) /\ Before(S, p) \in SUBSET Player
    BY <2>1 DEF Previous, Before
  <2>3. Last(Before(S, p)) \in Before(S, p)
    BY <2>1, <2>2, LastIsGreatest
  <2>4. p \in Nat /\ p < p
    BY <2>2, <2>3, <1>1 DEF Before
  <2>5. QED
    BY <2>4
<1>3. Last(S) = p /\ \A q \in S : q <= p
  BY <1>2, LastIsGreatest DEF Previous
<1>4. ASSUME NEW q \in S PROVE q = p
  <2>1. p \in Nat /\ q \in Nat /\ q <= p /\ ~(q < p)
    BY <1>1, <1>2, <1>3 DEF Before
  <2>2. QED
    BY <2>1
<1>5. QED
  BY <1>4

-----------------------------------------------------------------------------
(* The inductive invariant: the cached and the stored session are sound.   *)

(* A ballot exists from the start of the vote on; it is only revealed when *)
(* a vote was taken or none was possible.                                  *)
CountedBallot(s) ==
  /\ s.phase \in {"Voting", "End"} => s.ballot # "none"
  /\ s.ballot = "revealed" => VoteTaken(s)
  /\ s.phase = "End" => s.ballot = "revealed"

(* After the handover everybody has another dragon, and every dragon notes. *)
Swapped(s) ==
  s.phase \in AfterHandover => \A p \in s.players : s.caring[p] = p => s.players = {p}
Noted(s) ==
  s.phase \in AfterHandover => \A d \in s.dragons : s.tags[d] # "none"

Sound(s) ==
  /\ s \in Session
  /\ Paired(s)
  /\ Swapped(s)
  /\ Noted(s)
  /\ LegalVotes(s)
  /\ CountedBallot(s)

IInv ==
  /\ TypeOK
  /\ Sound(session)
  /\ Sound(stored)

-----------------------------------------------------------------------------
(* What each operation on a session preserves. *)

(* Soundness looks at the game only, not at who is connected or hosts. *)
SameGame(s, t) ==
  /\ t.phase = s.phase /\ t.players = s.players /\ t.dragons = s.dragons
  /\ t.caretaker = s.caretaker /\ t.caring = s.caring
  /\ t.ballot = s.ballot /\ t.eligible = s.eligible /\ t.votes = s.votes
  /\ \A d \in Player : s.tags[d] # "none" => t.tags[d] # "none"

LEMMA SameGameSound ==
  ASSUME NEW s, NEW t, Sound(s), t \in Session, SameGame(s, t)
  PROVE  Sound(t)
<1>1. s.dragons \in SUBSET Player
  BY DEF Sound, Session
<1>2. Paired(t) /\ LegalVotes(t) /\ CountedBallot(t)
  BY DEF Sound, SameGame, Paired, LegalVotes, CountedBallot, VoteTaken
<1>3. Swapped(t) /\ Noted(t)
  BY <1>1 DEF Sound, SameGame, Swapped, Noted
<1>4. QED
  BY <1>2, <1>3 DEF Sound

LEMMA HostIsPlayer ==
  ASSUME NEW s \in Session, NEW here \in SUBSET Player
  PROVE  ReservedHost(s, here) \in MaybeOne /\ NextHost(s, here) \in MaybeOne
<1>1. OwnersAmong(here) # {} => First(OwnersAmong(here)) \in Player
  <2>1. OwnersAmong(here) \in SUBSET Player
    BY DEF OwnersAmong
  <2>2. QED
    BY <2>1, FirstIsMember
<1>2. here # {} => Earliest(s, here) \in Player
  BY EarliestIsMember DEF Session
<1>3. s.host \in MaybeOne
  BY DEF Session
<1>4. ReservedHost(s, here) \in MaybeOne
  BY <1>1, <1>3 DEF ReservedHost, MaybeOne
<1>5. NextHost(s, here) \in MaybeOne
  BY <1>1, <1>2, <1>3 DEF NextHost, HostOrEarliest, MaybeOne
<1>6. QED
  BY <1>4, <1>5

LEMMA EnsureHostAssignedKeepsGame ==
  ASSUME NEW s \in Session, NEW b \in BOOLEAN
  PROVE  EnsureHostAssigned(s, b) \in Session /\ SameGame(s, EnsureHostAssigned(s, b))
<1> DEFINE here == Candidates(s, b)
           host == IF s.reserved THEN ReservedHost(s, here) ELSE NextHost(s, here)
           t    == [s EXCEPT !.host = host, !.reserved = @ /\ host = NoOne]
<1>1. here \in SUBSET Player
  BY DEF Candidates, Session
<1>2. host \in MaybeOne
  BY <1>1, HostIsPlayer
<1>3. t \in Session /\ SameGame(s, t)
  <2> HIDE DEF host
  <2>1. QED
    BY <1>2 DEF Session, SameGame
<1>4. EnsureHostAssigned(s, b) = t
  BY DEF EnsureHostAssigned
<1>5. QED
  BY <1>3, <1>4

LEMMA EnsureHostAssignedSound ==
  ASSUME NEW s, Sound(s), NEW b \in BOOLEAN
  PROVE  Sound(EnsureHostAssigned(s, b))
BY SameGameSound, EnsureHostAssignedKeepsGame DEF Sound

LEMMA ConnectedSound ==
  ASSUME NEW s, Sound(s), NEW C \in SUBSET Player
  PROVE  Sound([s EXCEPT !.connected = C])
<1>1. [s EXCEPT !.connected = C] \in Session
  BY DEF Sound, Session
<1>2. SameGame(s, [s EXCEPT !.connected = C])
  BY DEF Sound, Session, SameGame
<1>3. QED
  BY <1>1, <1>2, SameGameSound

LEMMA ReloadedSound ==
  ASSUME Sound(stored), rows \subseteq Player
  PROVE  Sound(Reloaded)
<1> DEFINE s       == Restored(stored)
           present == rows \cap s.players
<1>1. Sound(s)
  BY ConnectedSound, EnsureHostAssignedSound DEF Restored, Sanitized
<1>2. Sound([s EXCEPT !.connected = present])
  <2>1. present \in SUBSET Player
    OBVIOUS
  <2> HIDE DEF s, present
  <2>2. QED
    BY <1>1, <2>1, ConnectedSound
<1>3. (present # {}) \in BOOLEAN
  OBVIOUS
<1>4. Reloaded = EnsureHostAssigned([s EXCEPT !.connected = present], present # {})
  BY DEF Reloaded
<1> HIDE DEF s, present
<1>5. QED
  BY <1>2, <1>3, <1>4, EnsureHostAssignedSound

LEMMA AddPlayerSound ==
  ASSUME NEW s, Sound(s), s.phase = "Lobby", NEW p \in Player, NEW b \in BOOLEAN
  PROVE  Sound(AddPlayer(s, p, b))
<1> DEFINE owns == AccountOf[p] = Owner
           t == [s EXCEPT
                  !.players = @ \cup {p}, !.connected = @ \cup {p},
                  !.ready = IF b THEN @ \cup {p} ELSE @,
                  !.joins = @ + 1, !.joinedAt[p] = s.joins + 1]
           u == [t EXCEPT
                  !.host = IF owns /\ (s.reserved \/ s.host = NoOne) THEN p ELSE @,
                  !.reserved = @ /\ ~owns]
<1>1. t \in Session
  <2> DEFINE players   == s.players \cup {p}
             connected == s.connected \cup {p}
             ready     == IF b THEN s.ready \cup {p} ELSE s.ready
             joins     == s.joins + 1
             joinedAt  == [s.joinedAt EXCEPT ![p] = joins]
  <2>1. /\ players \in SUBSET Player /\ connected \in SUBSET Player
        /\ ready \in SUBSET Player /\ joins \in Nat
    BY DEF Sound, Session
  <2>2. joinedAt \in [Player -> Nat]
    <3> HIDE DEF joins
    <3>1. QED
      BY <2>1 DEF Sound, Session
  <2>3. t = [s EXCEPT !.players = players, !.connected = connected, !.ready = ready,
                      !.joins = joins, !.joinedAt = joinedAt]
    OBVIOUS
  <2>4. s \in Session
    BY DEF Sound
  <2> HIDE DEF players, connected, ready, joins, joinedAt, t, u
  <2>5. QED
    BY <2>1, <2>2, <2>3, <2>4 DEF Session
<1>2. u \in Session
  <2> HIDE DEF t
  <2>1. QED
    BY <1>1 DEF Session, MaybeOne
<1>3. /\ u.phase = s.phase /\ u.players = s.players \cup {p} /\ u.dragons = s.dragons
      /\ u.ballot = s.ballot /\ u.eligible = s.eligible /\ u.votes = s.votes
  BY <1>1 DEF Sound, Session
<1>4. Sound(u)
  <2> HIDE DEF u
  <2>1. QED
    BY <1>2, <1>3 DEF Sound, Paired, LegalVotes, CountedBallot, VoteTaken, Swapped, Noted,
                      AfterHandover
<1>5. AddPlayer(s, p, b) = EnsureHostAssigned(u, FALSE)
  BY DEF AddPlayer
<1> HIDE DEF u
<1>6. QED
  BY <1>4, <1>5, EnsureHostAssignedSound

(* A change of phase that leaves players, dragons and ballot alone. *)
LEMMA EnterPhaseSound ==
  ASSUME NEW s, Sound(s), NEW next \in Phase,
         \/ s.phase = "Phase1" /\ next = "Handover"
         \/ s.phase = "Phase2" /\ next = "Judge"
         \/ s.phase = "Voting" /\ next = "End" /\ s.ballot # "open"
  PROVE  Sound(EnterPhase(s, next))
<1> DEFINE t == EnterPhase(s, next)
<1>1. t \in Session
  BY DEF Sound, Session, EnterPhase
<1>2. /\ t.phase = next /\ t.players = s.players /\ t.dragons = s.dragons
      /\ t.caretaker = s.caretaker /\ t.caring = s.caring
      /\ t.ballot = s.ballot /\ t.eligible = s.eligible /\ t.votes = s.votes
      /\ t.tags = s.tags
  BY DEF Sound, Session, EnterPhase
<1>3. s.ballot \in {"none", "open", "revealed"}
  BY DEF Sound, Session
<1> HIDE DEF t
<1>4. Paired(t) /\ LegalVotes(t) /\ CountedBallot(t)
  BY <1>2, <1>3 DEF Sound, Paired, LegalVotes, CountedBallot, VoteTaken
<1>5. Swapped(t) /\ Noted(t)
  BY <1>2 DEF Sound, Swapped, Noted, AfterHandover
<1>6. QED
  BY <1>1, <1>4, <1>5 DEF Sound, t

LEMMA BeginPhase1Sound ==
  ASSUME NEW s, Sound(s)
  PROVE  Sound(BeginPhase1(s))
<1> DEFINE t   == BeginPhase1(s)
           own == [p \in Player |-> IF p \in s.players THEN p ELSE NoOne]
<1>1. own \in [Player -> MaybeOne] /\ \A p \in s.players : own[p] = p
  BY DEF MaybeOne, Sound, Session
<1>2. t \in Session
  <2> DEFINE e        == EnterPhase(s, "Phase1")
             untagged == [p \in Player |-> "none"]
             game     == e.game + 1
  <2>1. e \in Session
    BY DEF Sound, Session, EnterPhase, Phase
  <2>2. /\ NoPlayers \in [Player -> MaybeOne]
        /\ Zeroes \in [Player -> Nat]
        /\ untagged \in [Player -> Notes]
        /\ s.players \in SUBSET Player
        /\ game \in Nat
    BY <2>1 DEF NoPlayers, Zeroes, MaybeOne, Notes, Sound, Session
  <2>3. t = [e EXCEPT
              !.dragons = s.players, !.caring = own, !.caretaker = own,
              !.tags = untagged, !.ballot = "none", !.eligible = {},
              !.votes = NoPlayers, !.judged = Zeroes, !.score = Zeroes, !.game = game]
    BY DEF BeginPhase1
  <2> HIDE DEF own, e, untagged, game, t
  <2>4. QED
    BY <1>1, <2>1, <2>2, <2>3 DEF Session
<1>3. /\ t.phase = "Phase1" /\ t.players = s.players /\ t.dragons = s.players
      /\ t.caretaker = own /\ t.caring = own
      /\ t.ballot = "none" /\ t.eligible = {} /\ t.votes = NoPlayers
  BY DEF Sound, Session, BeginPhase1, EnterPhase
<1>4. Paired(t) /\ LegalVotes(t) /\ CountedBallot(t) /\ Swapped(t) /\ Noted(t)
  <2> HIDE DEF t, own
  <2>1. QED
    BY <1>1, <1>3 DEF Paired, LegalVotes, CountedBallot, NoPlayers, Swapped, Noted,
                      AfterHandover
<1>5. QED
  BY <1>2, <1>4 DEF Sound

LEMMA AutoFilledSound ==
  ASSUME NEW s, Sound(s), NEW deadline
  PROVE  Sound(AutoFilled(s, deadline)) /\ AutoFilled(s, deadline).phase = s.phase
<1> DEFINE filled == {s.caring[p] : p \in Unattended(s, deadline)}
           notes  == [d \in Player |-> IF d \in filled THEN "auto" ELSE s.tags[d]]
           t      == [s EXCEPT !.tags = notes]
<1>1. /\ notes \in [Player -> Notes]
      /\ \A d \in Player : s.tags[d] # "none" => notes[d] # "none"
  <2> HIDE DEF filled
  <2>1. QED
    BY DEF Sound, Session, Notes
<1>2. t \in Session /\ SameGame(s, t)
  <2> HIDE DEF notes
  <2>1. QED
    BY <1>1 DEF Sound, Session, SameGame
<1>3. AutoFilled(s, deadline) = t
  BY DEF AutoFilled
<1>4. t.phase = s.phase
  BY <1>2 DEF SameGame
<1> HIDE DEF t
<1>5. Sound(t)
  BY <1>2, SameGameSound
<1>6. QED
  BY <1>3, <1>4, <1>5

(* At the deadline, or once no online player's notes are missing, every    *)
(* dragon has notes when the dragons are handed over.                      *)
LEMMA HandoverComplete ==
  ASSUME NEW s, Sound(s), s.phase = "Handover", NEW deadline \in BOOLEAN,
         deadline \/ MissingHandover(s) = {}
  PROVE  LET t == AutoFilled(s, deadline) IN \A d \in t.dragons : t.tags[d] # "none"
<1> DEFINE filled == {s.caring[p] : p \in Unattended(s, deadline)}
           notes  == [d \in Player |-> IF d \in filled THEN "auto" ELSE s.tags[d]]
<1>1. /\ s.dragons = s.players /\ s.players \in SUBSET Player
      /\ \A p \in s.players : s.caring[p] = p
  BY DEF Sound, Paired, Session
<1>2. AutoFilled(s, deadline).dragons = s.dragons /\ AutoFilled(s, deadline).tags = notes
  BY DEF AutoFilled, Sound, Session
<1>3. ASSUME NEW d \in s.dragons, s.tags[d] = "none" PROVE d \in filled
  <2>1. HoldsUntagged(s, d)
    BY <1>1, <1>3 DEF HoldsUntagged
  <2>2. d \in Unattended(s, deadline)
    BY <1>1, <2>1 DEF Unattended, MissingHandover
  <2>3. QED
    BY <1>1, <2>2
<1>4. \A d \in s.dragons : notes[d] # "none"
  <2> HIDE DEF filled
  <2>1. QED
    BY <1>1, <1>3
<1>5. QED
  BY <1>2, <1>4

(* The handover is where the pairing could break. *)
LEMMA RotatedSound ==
  ASSUME NEW s, Sound(s), s.phase = "Handover", \A d \in s.dragons : s.tags[d] # "none"
  PROVE  Sound(Rotated(s))
<1> DEFINE caring    == [p \in Player |->
                           IF p \in s.players THEN Previous(s.dragons, p) ELSE s.caring[p]]
           caretaker == [d \in Player |->
                           IF d \in s.dragons THEN Following(s.players, d) ELSE s.caretaker[d]]
           t == Rotated(s)
<1>1. s.dragons = s.players /\ s.players \in SUBSET Player
  BY DEF Sound, Paired, Session
<1>2. \A p \in s.players : /\ caring[p] \in s.dragons
                           /\ caretaker[caring[p]] = p
  BY <1>1, RotationIsBijection
<1>3. /\ caring \in [Player -> MaybeOne]
      /\ caretaker \in [Player -> MaybeOne]
  <2>1. \A p \in s.players : Previous(s.dragons, p) \in MaybeOne
    BY <1>1, RotationIsBijection DEF MaybeOne
  <2>2. \A d \in s.dragons : Following(s.players, d) \in MaybeOne
    BY <1>1, RotationIsBijection DEF MaybeOne
  <2>3. s.caring \in [Player -> MaybeOne] /\ s.caretaker \in [Player -> MaybeOne]
    BY DEF Sound, Session
  <2>4. QED
    BY <2>1, <2>2, <2>3
<1>4. t = [EnterPhase(s, "Phase2") EXCEPT !.caring = caring, !.caretaker = caretaker]
  BY DEF Rotated, EnterPhase, Sound, Session
<1> HIDE DEF caring, caretaker, t
<1>5. t \in Session
  BY <1>3, <1>4 DEF Sound, Session, EnterPhase, Phase
<1>6. /\ t.phase = "Phase2" /\ t.players = s.players /\ t.dragons = s.dragons
      /\ t.caretaker = caretaker /\ t.caring = caring
      /\ t.ballot = s.ballot /\ t.eligible = s.eligible /\ t.votes = s.votes
      /\ t.tags = s.tags
  BY <1>4 DEF Sound, Session, EnterPhase
<1>7. Paired(t)
  BY <1>1, <1>2, <1>6 DEF Paired
<1>8. LegalVotes(t) /\ CountedBallot(t)
  BY <1>6 DEF Sound, LegalVotes, CountedBallot, VoteTaken
<1>9. Swapped(t) /\ Noted(t)
  <2>1. \A p \in s.players : caring[p] = p => s.players = {p}
    BY <1>1, RotationMovesEveryDragon DEF caring
  <2>2. QED
    BY <2>1, <1>6 DEF Swapped, Noted
<1>10. QED
  BY <1>5, <1>7, <1>8, <1>9 DEF Sound, t

LEMMA EnterVotingSound ==
  ASSUME NEW s, Sound(s), s.phase \in {"Phase2", "Judge"}
  PROVE  Sound(EnterVoting(s))
<1> DEFINE e        == EnterPhase(s, "Voting")
           holders  == {p \in s.players : s.caring[p] # NoOne}
           eligible == IF Cardinality(holders) > 1 THEN holders ELSE {}
           ballot   == IF eligible = {} THEN "revealed" ELSE "open"
           t        == [e EXCEPT !.eligible = eligible, !.votes = NoPlayers, !.ballot = ballot]
<1>1. e \in Session
  BY DEF Sound, Session, EnterPhase, Phase
<1>2. eligible \in SUBSET s.players /\ eligible \in SUBSET Player
  BY DEF Sound, Session
<1>3. /\ ballot \in {"revealed", "open"}
      /\ ballot = "revealed" => eligible = {}
  OBVIOUS
<1>4. NoPlayers \in [Player -> MaybeOne]
  BY DEF NoPlayers, MaybeOne
<1>5. /\ e.phase = "Voting" /\ e.players = s.players /\ e.dragons = s.dragons
      /\ e.caretaker = s.caretaker /\ e.caring = s.caring /\ e.tags = s.tags
  BY DEF EnterPhase, Sound, Session
<1>6. EnterVoting(s) = t
  BY DEF EnterVoting
<1> HIDE DEF e, eligible, ballot
<1>7. t \in Session
  BY <1>1, <1>2, <1>3, <1>4 DEF Session
<1>8. /\ t.phase = "Voting" /\ t.players = s.players /\ t.dragons = s.dragons
      /\ t.caretaker = s.caretaker /\ t.caring = s.caring
      /\ t.ballot = ballot /\ t.eligible = eligible /\ t.votes = NoPlayers
      /\ t.tags = s.tags
  BY <1>1, <1>5 DEF Session
<1> HIDE DEF t
<1>9. Paired(t) /\ Swapped(t) /\ Noted(t)
  BY <1>8 DEF Sound, Paired, Swapped, Noted, AfterHandover
<1>10. LegalVotes(t) /\ CountedBallot(t)
  BY <1>2, <1>3, <1>8 DEF LegalVotes, CountedBallot, VoteTaken, NoPlayers
<1>11. QED
  BY <1>6, <1>7, <1>9, <1>10 DEF Sound

LEMMA ResetToLobbySound ==
  ASSUME NEW s, Sound(s), NEW host \in Player
  PROVE  Sound(ResetToLobby(s, host))
<1> DEFINE t         == ResetToLobby(s, host)
           untagged  == [d \in Player |-> "none"]
           connected == s.connected \cap {host}
           ready     == s.ready \cap {host}
<1>1. /\ NoPlayers \in [Player -> MaybeOne]
      /\ Zeroes \in [Player -> Nat]
      /\ untagged \in [Player -> Notes]
      /\ {host} \in SUBSET Player
      /\ connected \in SUBSET Player
      /\ ready \in SUBSET Player
  BY DEF NoPlayers, MaybeOne, Zeroes, Notes, Sound, Session
<1>2. s \in Session
  BY DEF Sound
<1>3. t = [s EXCEPT !.phase = "Lobby", !.ballot = "none", !.eligible = {}, !.votes = NoPlayers,
                    !.dragons = {}, !.tags = untagged, !.judged = Zeroes,
                    !.caretaker = NoPlayers, !.caring = NoPlayers, !.score = Zeroes,
                    !.players = {host}, !.connected = connected, !.ready = ready]
  BY DEF ResetToLobby
<1> HIDE DEF t, untagged, connected, ready
<1>4. t \in Session
  BY <1>1, <1>2, <1>3 DEF Session, Phase
<1>5. t.phase = "Lobby" /\ t.ballot = "none" /\ t.eligible = {} /\ t.votes = NoPlayers
  BY <1>2, <1>3 DEF Session
<1>6. QED
  BY <1>4, <1>5 DEF Sound, Paired, LegalVotes, CountedBallot, NoPlayers, Swapped, Noted,
                    AfterHandover, t

LEMMA ApplyJudgeScoresSound ==
  ASSUME NEW s, Sound(s), NEW evaluated \in SUBSET Player, NEW game \in Nat
  PROVE  /\ Sound(ApplyJudgeScores(s, evaluated, game))
         /\ ApplyJudgeScores(s, evaluated, game).phase = s.phase
<1> DEFINE known   == evaluated \cap s.dragons
           care(p) == Cardinality({d \in known : s.caretaker[d] = p})
           judged  == [d \in Player |-> IF d \in known THEN game ELSE s.judged[d]]
           score   == [p \in Player |->
                        IF p \in s.players
                        THEN (IF p \in known THEN ObservationScore ELSE 0) + CareScore * care(p)
                        ELSE 0]
           t       == [s EXCEPT !.judged = judged, !.score = score]
<1>1. \A p \in Player : care(p) \in Nat
  <2>1. ASSUME NEW p \in Player PROVE care(p) \in Nat
    <3>1. {d \in known : s.caretaker[d] = p} \in SUBSET Player
      OBVIOUS
    <3>2. QED
      BY <3>1, PlayerAssumption, FS_Subset, FS_CardinalityType
  <2>2. QED
    BY <2>1
<1>2. judged \in [Player -> Nat]
  BY DEF Sound, Session
<1>3. score \in [Player -> Nat]
  <2> HIDE DEF care
  <2>1. QED
    BY <1>1 DEF ObservationScore, CareScore
<1>4. ApplyJudgeScores(s, evaluated, game) = t
  BY DEF ApplyJudgeScores
<1> HIDE DEF judged, score
<1>5. t \in Session /\ SameGame(s, t)
  BY <1>2, <1>3 DEF Sound, Session, SameGame
<1>6. t.phase = s.phase
  BY <1>5 DEF SameGame
<1> HIDE DEF t
<1>7. Sound(t)
  BY <1>5, SameGameSound
<1>8. QED
  BY <1>4, <1>6, <1>7

LEMMA JudgedSound ==
  ASSUME Sound(Reloaded), NEW task \in JudgeTask
  PROVE  Sound(Judged(task))
<1> DEFINE scored == ApplyJudgeScores(Reloaded, task.dragons, task.game)
<1>1. Sound(scored)
  BY ApplyJudgeScoresSound DEF JudgeTask
<1>2. CASE scored.phase = "Phase2"
  <2>1. Judged(task) = EnterPhase(scored, "Judge")
    BY <1>2 DEF Judged
  <2>2. "Judge" \in Phase
    BY DEF Phase
  <2> HIDE DEF scored
  <2>3. QED
    BY <1>1, <1>2, <2>1, <2>2, EnterPhaseSound
<1>3. CASE scored.phase # "Phase2"
  BY <1>1, <1>3 DEF Judged
<1>4. QED
  BY <1>2, <1>3

LEMMA VoteSound ==
  ASSUME NEW s, Sound(s), s.ballot = "open", NEW p \in s.eligible, NEW d \in s.dragons, d # p
  PROVE  Sound([s EXCEPT !.votes[p] = d])
<1> DEFINE votes == [s.votes EXCEPT ![p] = d]
           t     == [s EXCEPT !.votes = votes]
<1>1. /\ s.votes \in [Player -> MaybeOne] /\ p \in Player /\ d \in MaybeOne
      /\ s.dragons \in SUBSET Player
  BY DEF Sound, Session, MaybeOne
<1>2. votes \in [Player -> MaybeOne] /\ votes[p] = d /\ \A q \in Player \ {p} : votes[q] = s.votes[q]
  BY <1>1
<1> HIDE DEF votes
<1>3. t \in Session
  BY <1>2 DEF Sound, Session
<1>4. /\ t.phase = s.phase /\ t.players = s.players /\ t.dragons = s.dragons
      /\ t.caretaker = s.caretaker /\ t.caring = s.caring
      /\ t.ballot = "open" /\ t.eligible = s.eligible /\ t.votes = votes
      /\ t.tags = s.tags
  BY DEF Sound, Session
<1> HIDE DEF t
<1>5. Paired(t) /\ CountedBallot(t) /\ Swapped(t) /\ Noted(t)
  BY <1>4 DEF Sound, Paired, CountedBallot, Swapped, Noted
<1>6. LegalVotes(t)
  BY <1>1, <1>2, <1>4 DEF Sound, LegalVotes
<1>7. QED
  BY <1>3, <1>5, <1>6 DEF Sound, t, votes

LEMMA RevealSound ==
  ASSUME NEW s, Sound(s), VoteTaken(s)
  PROVE  Sound([s EXCEPT !.ballot = "revealed"])
<1> DEFINE t == [s EXCEPT !.ballot = "revealed"]
<1>1. t \in Session
  BY DEF Sound, Session
<1>2. /\ t.phase = s.phase /\ t.players = s.players /\ t.dragons = s.dragons
      /\ t.caretaker = s.caretaker /\ t.caring = s.caring
      /\ t.ballot = "revealed" /\ t.eligible = s.eligible /\ t.votes = s.votes
      /\ t.tags = s.tags
  BY DEF Sound, Session
<1> HIDE DEF t
<1>3. QED
  BY <1>1, <1>2 DEF Sound, Paired, LegalVotes, CountedBallot, VoteTaken, Swapped, Noted, t

LEMMA TagsSound ==
  ASSUME NEW s, Sound(s), NEW d \in Player, NEW note \in Notes \ {"none"}
  PROVE  Sound([s EXCEPT !.tags[d] = note])
<1> DEFINE tags == [s.tags EXCEPT ![d] = note]
           t    == [s EXCEPT !.tags = tags]
<1>1. /\ tags \in [Player -> Notes]
      /\ \A e \in Player : s.tags[e] # "none" => tags[e] # "none"
  BY DEF Sound, Session
<1> HIDE DEF tags
<1>2. t \in Session /\ SameGame(s, t)
  BY <1>1 DEF Sound, Session, SameGame
<1>3. QED
  BY <1>2, SameGameSound DEF tags

-----------------------------------------------------------------------------
(* Every step preserves the invariant.                                     *)

(* The part about the two copies of the session, and the rest. *)
Copies ==
  /\ Sound(session) /\ Sound(stored)
  /\ stored.connected = {}
  /\ cached \in BOOLEAN
Bookkeeping ==
  /\ sockets \subseteq Player /\ rows \subseteq Player
  /\ leaving \in [Player -> Closing]
  /\ timer \in {"running", "ending", "expired"}
  /\ judges \in [JudgeRun -> JudgeTask]

LEMMA InvariantParts == IInv <=> Copies /\ Bookkeeping
BY DEF IInv, TypeOK, Copies, Bookkeeping, Sound

LEMMA NextInvariantParts == IInv' <=> Copies' /\ Bookkeeping'
BY DEF IInv, TypeOK, Copies, Bookkeeping, Sound

LEMMA SaveKeepsCopies ==
  ASSUME NEW s, Sound(s), Save(s)
  PROVE  Copies'
<1>1. Sound(Sanitized(s))
  BY ConnectedSound DEF Sanitized
<1>2. Sanitized(s).connected = {}
  BY DEF Sanitized, Sound, Session
<1>3. QED
  BY <1>1, <1>2 DEF Save, Copies

LEMMA RefreshKeepsCopies ==
  ASSUME IInv, Refresh
  PROVE  Copies'
BY ReloadedSound DEF IInv, TypeOK, Refresh, Copies

LEMMA QueueJudgeKeepsTasks ==
  ASSUME judges \in [JudgeRun -> JudgeTask], QueueJudge
  PROVE  judges' \in [JudgeRun -> JudgeTask]
BY DEF QueueJudge, JudgeTask

LEMMA PresenceKeepsInvariant ==
  ASSUME IInv, PresenceStep
  PROVE  IInv'
<1> USE DEF presence
<1>1. Sound(Reloaded) /\ Bookkeeping
  BY ReloadedSound DEF IInv, TypeOK, Bookkeeping
<1>2. PICK p \in Player :
        \/ \E b \in BOOLEAN : Join(p, b)
        \/ Rejoin(p) \/ Attach(p) \/ Release(p) \/ Disconnect(p)
        \/ AbandonDisconnect(p) \/ ExpireRow(p)
  BY DEF PresenceStep
<1>3. ASSUME NEW C \in SUBSET Player, NEW s, Sound(s)
      PROVE  Sound(EnsureHostAssigned([s EXCEPT !.connected = C], TRUE))
  BY <1>3, ConnectedSound, EnsureHostAssignedSound
<1>4. Reloaded.connected \in SUBSET Player
  BY <1>1 DEF Sound, Session
<1>5. CASE \E b \in BOOLEAN : Join(p, b)
  <2>1. PICK b \in BOOLEAN : Join(p, b)
    BY <1>5
  <2>2. Copies'
    BY <1>1, <2>1, AddPlayerSound, SaveKeepsCopies DEF Join
  <2>3. Bookkeeping'
    BY <1>1, <2>1 DEF Join, Bookkeeping
  <2>4. QED
    BY <2>2, <2>3, NextInvariantParts
<1>6. CASE Rejoin(p)
  <2>1. Copies'
    BY <1>1, <1>3, <1>4, <1>6, SaveKeepsCopies DEF Rejoin
  <2>2. Bookkeeping'
    BY <1>1, <1>6 DEF Rejoin, Bookkeeping
  <2>3. QED
    BY <2>1, <2>2, NextInvariantParts
<1>7. CASE Attach(p)
  <2>1. Copies'
    BY <1>1, <1>3, <1>4, <1>7, SaveKeepsCopies, RefreshKeepsCopies DEF Attach
  <2>2. Bookkeeping'
    BY <1>1, <1>7 DEF Attach, Bookkeeping
  <2>3. QED
    BY <2>1, <2>2, NextInvariantParts
<1>8. CASE Release(p)
  <2>1. Copies'
    BY <1>8, InvariantParts DEF Release, Copies
  <2>2. Bookkeeping'
    BY <1>1, <1>8 DEF Release, Bookkeeping, Closing
  <2>3. QED
    BY <2>1, <2>2, NextInvariantParts
<1>9. CASE Disconnect(p)
  <2>1. Copies'
    BY <1>1, <1>3, <1>4, <1>9, SaveKeepsCopies, RefreshKeepsCopies DEF Disconnect
  <2>2. Bookkeeping'
    BY <1>1, <1>9 DEF Disconnect, Bookkeeping, Closing
  <2>3. QED
    BY <2>1, <2>2, NextInvariantParts
<1>10. CASE AbandonDisconnect(p)
  <2>1. Copies'
    BY <1>10, InvariantParts DEF AbandonDisconnect, Copies
  <2>2. Bookkeeping'
    BY <1>1, <1>10 DEF AbandonDisconnect, Bookkeeping, Closing
  <2>3. QED
    BY <2>1, <2>2, NextInvariantParts
<1>11. CASE ExpireRow(p)
  <2>1. Copies'
    BY <1>11, InvariantParts DEF ExpireRow, Copies
  <2>2. Bookkeeping'
    BY <1>1, <1>11 DEF ExpireRow, Bookkeeping
  <2>3. QED
    BY <2>1, <2>2, NextInvariantParts
<1>12. QED
  BY <1>2, <1>5, <1>6, <1>7, <1>8, <1>9, <1>10, <1>11

LEMMA HostCommandKeepsInvariant ==
  ASSUME IInv, NEW p \in Player,
         \/ StartPhase1(p) \/ StartHandover(p) \/ StartPhase2(p) \/ RejectPhase2(p)
         \/ OpenVoting(p) \/ RevealVotingResults(p) \/ EndSession(p)
         \/ ResetGame(p) \/ RequestJudge(p)
  PROVE  IInv'
<1> USE DEF presence
<1>1. Sound(session) /\ Bookkeeping
  BY InvariantParts DEF Copies
<1>2. CASE StartPhase1(p)
  <2>1. Copies'
    BY <1>1, <1>2, BeginPhase1Sound, SaveKeepsCopies DEF StartPhase1, MayStartPhase1
  <2>2. QED
    BY <1>1, <1>2, <2>1, NextInvariantParts DEF StartPhase1, MayStartPhase1, Bookkeeping
<1>3. CASE StartHandover(p)
  <2>1. Sound(EnterPhase(session, "Handover"))
    BY <1>1, <1>3, EnterPhaseSound DEF StartHandover, MayStartHandover, Phase
  <2>2. Copies'
    BY <1>3, <2>1, SaveKeepsCopies DEF StartHandover, MayStartHandover
  <2>3. QED
    BY <1>1, <1>3, <2>2, NextInvariantParts DEF StartHandover, MayStartHandover, Bookkeeping
<1>4. CASE StartPhase2(p)
  <2> DEFINE filled == AutoFilled(session, timer = "expired")
  <2>1. Sound(filled) /\ filled.phase = "Handover"
    BY <1>1, <1>4, AutoFilledSound DEF StartPhase2, MayStartPhase2
  <2>2. Save(Rotated(filled))
    BY <1>4 DEF StartPhase2, MayStartPhase2
  <2>3. \A d \in filled.dragons : filled.tags[d] # "none"
    BY <1>1, <1>4, HandoverComplete DEF StartPhase2, MayStartPhase2
  <2> HIDE DEF filled
  <2>4. Copies'
    BY <2>1, <2>2, <2>3, RotatedSound, SaveKeepsCopies
  <2>5. QED
    BY <1>1, <1>4, <2>4, NextInvariantParts DEF StartPhase2, MayStartPhase2, Bookkeeping
<1>5. CASE RejectPhase2(p)
  <2>1. Copies'
    BY <1>1, <1>5, AutoFilledSound, InvariantParts DEF RejectPhase2, Copies
  <2>2. QED
    BY <1>1, <1>5, <2>1, NextInvariantParts DEF RejectPhase2, Bookkeeping
<1>6. CASE OpenVoting(p)
  <2>1. Copies'
    BY <1>1, <1>6, EnterVotingSound, SaveKeepsCopies DEF OpenVoting, MayOpenVoting
  <2>2. judges' \in [JudgeRun -> JudgeTask]
    BY <1>1, <1>6, QueueJudgeKeepsTasks DEF OpenVoting, MayOpenVoting, Bookkeeping
  <2>3. QED
    BY <1>1, <1>6, <2>1, <2>2, NextInvariantParts DEF OpenVoting, MayOpenVoting, Bookkeeping
<1>7. CASE RevealVotingResults(p)
  <2>1. Copies'
    BY <1>1, <1>7, RevealSound, SaveKeepsCopies DEF RevealVotingResults, MayReveal, VoteTaken
  <2>2. QED
    BY <1>1, <1>7, <2>1, NextInvariantParts DEF RevealVotingResults, MayReveal, Bookkeeping
<1>8. CASE EndSession(p)
  <2>1. Sound(EnterPhase(session, "End"))
    BY <1>1, <1>8, EnterPhaseSound DEF EndSession, MayEndSession, Phase
  <2>2. Copies'
    BY <1>8, <2>1, SaveKeepsCopies DEF EndSession, MayEndSession
  <2>3. QED
    BY <1>1, <1>8, <2>2, NextInvariantParts DEF EndSession, MayEndSession, Bookkeeping
<1>9. CASE ResetGame(p)
  <2>1. Copies'
    BY <1>1, <1>9, ResetToLobbySound, SaveKeepsCopies DEF ResetGame
  <2>2. QED
    BY <1>1, <1>9, <2>1, NextInvariantParts DEF ResetGame, Bookkeeping
<1>10. CASE RequestJudge(p)
  <2>1. Copies'
    BY <1>10, InvariantParts DEF RequestJudge, Copies
  <2>2. judges' \in [JudgeRun -> JudgeTask]
    BY <1>1, <1>10, QueueJudgeKeepsTasks DEF RequestJudge, Bookkeeping
  <2>3. QED
    BY <1>1, <1>10, <2>1, <2>2, NextInvariantParts DEF RequestJudge, Bookkeeping
<1>11. QED
  BY <1>2, <1>3, <1>4, <1>5, <1>6, <1>7, <1>8, <1>9, <1>10

LEMMA PlayerCommandKeepsInvariant ==
  ASSUME IInv, NEW p \in Player,
         SelectCharacter(p) \/ SubmitTags(p) \/ \E d \in Player : SubmitVote(p, d)
  PROVE  IInv'
<1> USE DEF presence
<1>1. Sound(session) /\ Bookkeeping
  BY InvariantParts DEF Copies
<1>2. CASE SelectCharacter(p)
  <2> DEFINE t == [session EXCEPT !.ready = @ \cup {p}]
  <2>1. t \in Session /\ SameGame(session, t)
    BY <1>1 DEF Sound, Session, SameGame
  <2>2. Save(t)
    BY <1>2 DEF SelectCharacter
  <2> HIDE DEF t
  <2>3. Copies'
    BY <1>1, <2>1, <2>2, SameGameSound, SaveKeepsCopies
  <2>4. QED
    BY <1>1, <1>2, <2>3, NextInvariantParts DEF SelectCharacter, Bookkeeping
<1>3. CASE SubmitTags(p)
  <2> DEFINE t == [session EXCEPT !.tags[session.caring[p]] = "own"]
  <2>1. session.caring[p] \in Player /\ "own" \in Notes \ {"none"}
    BY <1>1, <1>3 DEF SubmitTags, MaySubmitTags, Sound, Session, Notes
  <2>2. Sound(t)
    BY <1>1, <2>1, TagsSound
  <2>3. Save(t)
    BY <1>3 DEF SubmitTags, MaySubmitTags
  <2> HIDE DEF t
  <2>4. Copies'
    BY <2>2, <2>3, SaveKeepsCopies
  <2>5. QED
    BY <1>1, <1>3, <2>4, NextInvariantParts DEF SubmitTags, MaySubmitTags, Bookkeeping
<1>4. ASSUME NEW d \in Player, SubmitVote(p, d) PROVE IInv'
  <2>1. Sound([session EXCEPT !.votes[p] = d])
    BY <1>1, <1>4, VoteSound DEF SubmitVote, MaySubmitVote
  <2>2. Copies'
    BY <1>4, <2>1, SaveKeepsCopies DEF SubmitVote, MaySubmitVote
  <2>3. QED
    BY <1>1, <1>4, <2>2, NextInvariantParts DEF SubmitVote, MaySubmitVote, Bookkeeping
<1>5. QED
  BY <1>2, <1>3, <1>4

LEMMA JudgeKeepsInvariant ==
  ASSUME IInv, JudgeStep
  PROVE  IInv'
<1> USE DEF presence
<1>1. Sound(session) /\ Sound(Reloaded) /\ Bookkeeping
  BY ReloadedSound, InvariantParts DEF Copies, Bookkeeping
<1>2. PICK j \in JudgeRun :
        JudgeSnapshot(j) \/ JudgeApply(j) \/ JudgeFail(j) \/ JudgeLeaseLost(j)
  BY DEF JudgeStep
<1>3. judges[j] \in JudgeTask /\ IdleTask \in JudgeTask
  BY <1>1 DEF Bookkeeping, JudgeTask, IdleTask
<1>4. Sound(Judged(judges[j]))
  BY <1>1, <1>3, JudgedSound
<1>5. judges' = [judges EXCEPT ![j] = IdleTask] => judges' \in [JudgeRun -> JudgeTask]
  BY <1>1, <1>3 DEF Bookkeeping
<1>6. CASE JudgeSnapshot(j)
  <2> DEFINE task == [stage |-> "thinking", game |-> session.game, dragons |-> session.dragons]
  <2>1. task \in JudgeTask
    BY <1>1 DEF Sound, Session, JudgeTask
  <2>2. judges' = [judges EXCEPT ![j] = task]
    BY <1>6 DEF JudgeSnapshot
  <2> HIDE DEF task
  <2>3. judges' \in [JudgeRun -> JudgeTask]
    BY <1>1, <2>1, <2>2 DEF Bookkeeping
  <2>4. QED
    BY <1>1, <1>6, <2>3, InvariantParts, NextInvariantParts
    DEF JudgeSnapshot, Bookkeeping, Copies
<1>7. CASE JudgeApply(j)
  <2>1. Copies'
    BY <1>4, <1>7, SaveKeepsCopies DEF JudgeApply
  <2>2. QED
    BY <1>1, <1>5, <1>7, <2>1, NextInvariantParts DEF JudgeApply, Bookkeeping
<1>8. CASE JudgeFail(j)
  <2>1. Copies'
    BY <1>8, RefreshKeepsCopies, InvariantParts DEF JudgeFail, Copies
  <2>2. QED
    BY <1>1, <1>5, <1>8, <2>1, NextInvariantParts DEF JudgeFail, Bookkeeping
<1>9. CASE JudgeLeaseLost(j)
  <2>1. Copies'
    BY <1>4, <1>9, InvariantParts DEF JudgeLeaseLost, Copies
  <2>2. QED
    BY <1>1, <1>5, <1>9, <2>1, NextInvariantParts DEF JudgeLeaseLost, Bookkeeping
<1>10. QED
  BY <1>2, <1>6, <1>7, <1>8, <1>9

LEMMA TickerKeepsInvariant ==
  ASSUME IInv, TickerStep
  PROVE  IInv'
<1> USE DEF presence
<1>1. Sound(session) /\ Bookkeeping
  BY InvariantParts DEF Copies
<1>2. CASE TimePasses
  BY <1>1, <1>2, InvariantParts, NextInvariantParts DEF TimePasses, Bookkeeping, Copies
<1>3. CASE EmitPhaseWarning
  <2> DEFINE t == [session EXCEPT !.warned = TRUE]
  <2>1. t \in Session /\ SameGame(session, t)
    BY <1>1 DEF Sound, Session, SameGame
  <2>2. session' = t
    BY <1>3 DEF EmitPhaseWarning
  <2> HIDE DEF t
  <2>3. Copies'
    BY <1>1, <1>3, <2>1, <2>2, SameGameSound, InvariantParts DEF EmitPhaseWarning, Copies
  <2>4. QED
    BY <1>1, <1>3, <2>3, NextInvariantParts DEF EmitPhaseWarning, Bookkeeping
<1>4. CASE AdvanceOverduePhase
  <2> DEFINE filled == AutoFilled(session, TRUE)
  <2>1. session.phase = "Handover" => Sound(Rotated(filled))
    <3>1. SUFFICES ASSUME session.phase = "Handover" PROVE Sound(Rotated(filled))
      OBVIOUS
    <3>2. Sound(filled) /\ filled.phase = "Handover"
      BY <1>1, <3>1, AutoFilledSound
    <3>3. \A d \in filled.dragons : filled.tags[d] # "none"
      BY <1>1, <3>1, HandoverComplete
    <3> HIDE DEF filled
    <3>4. QED
      BY <3>2, <3>3, RotatedSound
  <2>2. session.phase = "Phase1" => Sound(EnterPhase(session, "Handover"))
    BY <1>1, EnterPhaseSound DEF Phase
  <2>3. session.phase = "Phase2" => Sound(EnterVoting(session))
    BY <1>1, EnterVotingSound
  <2>4. Copies'
    BY <1>4, <2>1, <2>2, <2>3, SaveKeepsCopies DEF AdvanceOverduePhase
  <2>5. judges' \in [JudgeRun -> JudgeTask]
    BY <1>1, <1>4, QueueJudgeKeepsTasks DEF AdvanceOverduePhase, Bookkeeping
  <2>6. QED
    BY <1>1, <1>4, <2>4, <2>5, NextInvariantParts DEF AdvanceOverduePhase, Bookkeeping
<1>5. QED
  BY <1>2, <1>3, <1>4 DEF TickerStep

LEMMA InitIsSound == Init => IInv
<1> SUFFICES ASSUME Init PROVE IInv
  OBVIOUS
<1>1. Sound([NewSession EXCEPT !.reserved = FALSE])
  <2> DEFINE t == [NewSession EXCEPT !.reserved = FALSE]
  <2>1. t \in Session
    BY DEF NewSession, Session, Phase, NoPlayers, Zeroes, MaybeOne, Notes
  <2>2. t.phase = "Lobby" /\ t.ballot = "none" /\ t.eligible = {} /\ t.votes = NoPlayers
    BY DEF NewSession
  <2>3. QED
    BY <2>1, <2>2 DEF Sound, Paired, LegalVotes, CountedBallot, NoPlayers, Swapped, Noted,
                      AfterHandover
<1>2. Sound(NewSession)
  <2>1. NewSession \in Session
    BY DEF NewSession, Session, Phase, NoPlayers, Zeroes, MaybeOne, Notes
  <2>2. QED
    BY <2>1 DEF NewSession, Sound, Paired, LegalVotes, CountedBallot, NoPlayers, Swapped,
                Noted, AfterHandover
<1>3. [NewSession EXCEPT !.reserved = FALSE].phase = "Lobby"
  BY DEF NewSession
<1>4. \A p \in OwnersAmong(Player), b \in BOOLEAN :
        Sound(AddPlayer([NewSession EXCEPT !.reserved = FALSE], p, b))
  BY <1>1, <1>3, AddPlayerSound DEF OwnersAmong
<1>5. Sound(session)
  <2> DEFINE seated(p, b) == AddPlayer([NewSession EXCEPT !.reserved = FALSE], p, b)
  <2>1. \/ session = NewSession
        \/ \E p \in OwnersAmong(Player), b \in BOOLEAN : session = seated(p, b)
    BY DEF Init
  <2>2. \A p \in OwnersAmong(Player), b \in BOOLEAN : Sound(seated(p, b))
    BY <1>4
  <2> HIDE DEF seated
  <2>3. QED
    BY <1>2, <2>1, <2>2
<1>6. Copies
  <2>1. Sound(Sanitized(session))
    BY <1>5, ConnectedSound DEF Sanitized
  <2>2. Sanitized(session).connected = {}
    BY <1>5 DEF Sanitized, Sound, Session
  <2>3. QED
    BY <1>5, <2>1, <2>2 DEF Init, Copies
<1>7. Bookkeeping
  BY DEF Init, Bookkeeping, Closing, JudgeTask, IdleTask
<1>8. QED
  BY <1>6, <1>7, InvariantParts

LEMMA NextKeepsInvariant == IInv /\ [Next]_vars => IInv'
<1> SUFFICES ASSUME IInv, [Next]_vars PROVE IInv'
  OBVIOUS
<1>1. CASE PresenceStep
  BY <1>1, PresenceKeepsInvariant
<1>2. CASE CommandStep
  BY <1>2, HostCommandKeepsInvariant, PlayerCommandKeepsInvariant DEF CommandStep
<1>3. CASE JudgeStep
  BY <1>3, JudgeKeepsInvariant
<1>4. CASE TickerStep
  BY <1>4, TickerKeepsInvariant
<1>5. CASE Load
  <2>1. Copies'
    BY <1>5, RefreshKeepsCopies DEF Load
  <2>2. QED
    BY <1>5, <2>1, InvariantParts, NextInvariantParts DEF Load, Bookkeeping, presence
<1>6. CASE Restart
  <2>1. judges' \in [JudgeRun -> JudgeTask] /\ leaving' \in [Player -> Closing]
    BY <1>6 DEF Restart, JudgeTask, IdleTask, Closing
  <2>2. QED
    BY <1>6, <2>1, InvariantParts, NextInvariantParts DEF Restart, Bookkeeping, Copies
<1>7. CASE UNCHANGED vars
  BY <1>7, InvariantParts, NextInvariantParts DEF vars, presence, Bookkeeping, Copies
<1>8. QED
  BY <1>1, <1>2, <1>3, <1>4, <1>5, <1>6, <1>7 DEF Next

-----------------------------------------------------------------------------
(* What follows for every workshop.                                        *)

(* The inductive invariant holds in every reachable state. *)
THEOREM InvariantHolds == Spec => []IInv
BY InitIsSound, NextKeepsInvariant, PTL DEF Spec

(* Every variable keeps its type; presence never reaches the database. *)
THEOREM TypeCorrect == Spec => []TypeOK
<1>1. IInv => TypeOK
  BY DEF IInv
<1>2. QED
  BY <1>1, InvariantHolds, PTL

(* Outside the lobby players and dragons are paired one to one, whoever    *)
(* joined, left, was removed or missed the handover.                       *)
THEOREM PairingHolds == Spec => []CareIsPairing
<1>1. IInv => CareIsPairing
  BY DEF IInv, Sound, CareIsPairing
<1>2. QED
  BY <1>1, InvariantHolds, PTL

(* With more than one player nobody is left with their own dragon. *)
THEOREM DragonsChangeHands == Spec => []NobodyKeepsTheirDragon
<1>1. IInv => NobodyKeepsTheirDragon
  <2>1. \A p : Cardinality({p}) = 1
    BY FS_Singleton
  <2>2. \A p : ~(Cardinality({p}) > 1)
    BY <2>1
  <2>3. QED
    BY <2>2 DEF IInv, Sound, Swapped, NobodyKeepsTheirDragon
<1>2. QED
  BY <1>1, InvariantHolds, PTL

(* Nobody takes over a dragon without notes, however the handover ended. *)
THEOREM NotesHandedOver == Spec => []NobodyStartsBlind
<1>1. IInv => NobodyStartsBlind
  BY DEF IInv, Sound, Noted, NobodyStartsBlind
<1>2. QED
  BY <1>1, InvariantHolds, PTL

(* Every vote counted is one the rules allow, and no session ends without  *)
(* having shown what came of the vote.                                     *)
THEOREM VotesAreFair == Spec => []VoteIsFair
<1>1. IInv => VotesAreLegal
  BY DEF IInv, Sound, VotesAreLegal
<1>2. IInv => EndHasResults
  BY DEF IInv, Sound, CountedBallot, EndHasResults
<1>3. IInv => VoteIsFair
  BY <1>1, <1>2 DEF VoteIsFair
<1>4. QED
  BY <1>3, InvariantHolds, PTL

-----------------------------------------------------------------------------
(* What a crash may cost.                                                  *)

(* Host assignment, presence and the judge's scores are no progress.       *)
SameProgress(s, t) == Progress(t) = Progress(s) /\ t.phase = s.phase

LEMMA EnsureHostAssignedKeepsProgress ==
  ASSUME NEW s \in Session, NEW b \in BOOLEAN
  PROVE  SameProgress(s, EnsureHostAssigned(s, b))
<1> DEFINE host == IF s.reserved THEN ReservedHost(s, Candidates(s, b))
                                 ELSE NextHost(s, Candidates(s, b))
           t    == [s EXCEPT !.host = host, !.reserved = @ /\ host = NoOne]
<1>1. EnsureHostAssigned(s, b) = t
  BY DEF EnsureHostAssigned
<1> HIDE DEF host
<1>2. QED
  BY <1>1 DEF Session, SameProgress, Progress, OwnNotes

LEMMA ConnectedKeepsProgress ==
  ASSUME NEW s \in Session, NEW C \in SUBSET Player
  PROVE  /\ [s EXCEPT !.connected = C] \in Session
         /\ SameProgress(s, [s EXCEPT !.connected = C])
BY DEF Session, SameProgress, Progress, OwnNotes

(* A reload brings back exactly the progress that was stored.              *)
LEMMA ReloadedKeepsProgress ==
  ASSUME TypeOK
  PROVE  Reloaded \in Session /\ SameProgress(stored, Reloaded)
<1> DEFINE r == Restored(stored)
           present == rows \cap r.players
           c == [r EXCEPT !.connected = present]
           b == present # {}
<1>1. Sanitized(stored) \in Session /\ SameProgress(stored, Sanitized(stored))
  BY ConnectedKeepsProgress DEF TypeOK, Sanitized
<1>2. r \in Session /\ SameProgress(stored, r)
  BY <1>1, EnsureHostAssignedKeepsGame, EnsureHostAssignedKeepsProgress
  DEF Restored, SameProgress
<1> HIDE DEF r
<1>3. c \in Session /\ SameProgress(stored, c)
  <2>1. present \in SUBSET Player
    BY <1>2 DEF Session
  <2>2. QED
    BY <1>2, <2>1, ConnectedKeepsProgress DEF SameProgress
<1>4. Reloaded = EnsureHostAssigned(c, b) /\ b \in BOOLEAN
  BY DEF Reloaded, r
<1> HIDE DEF c, b
<1>5. QED
  BY <1>3, <1>4, EnsureHostAssignedKeepsGame, EnsureHostAssignedKeepsProgress DEF SameProgress

(* Whoever saves makes the cache and the store agree.                      *)
LEMMA SavedIsDurable ==
  ASSUME TypeOK', NEW s, Save(s)
  PROVE  DurableProgress'
<1>1. s \in Session /\ session' = s /\ stored' = Sanitized(s)
  BY DEF TypeOK, Save
<1>2. {} \in SUBSET Player
  OBVIOUS
<1>3. SameProgress(s, Sanitized(s))
  BY <1>1, <1>2, ConnectedKeepsProgress DEF Sanitized
<1>4. Progress(session') = Progress(stored') /\ session'.phase = stored'.phase
  BY <1>1, <1>3 DEF SameProgress
<1>5. QED
  BY <1>4 DEF DurableProgress

LEMMA RefreshedIsDurable ==
  ASSUME TypeOK, Refresh
  PROVE  DurableProgress'
<1>1. Progress(session') = Progress(stored') /\ session'.phase = stored'.phase
  BY ReloadedKeepsProgress DEF Refresh, SameProgress
<1>2. QED
  BY <1>1 DEF DurableProgress

(* The tags filled in before the host is refused are nobody's own.         *)
LEMMA AutoFilledKeepsProgress ==
  ASSUME NEW s \in Session, NEW b \in BOOLEAN
  PROVE  SameProgress(s, AutoFilled(s, b))
<1> DEFINE filled == {s.caring[p] : p \in Unattended(s, b)}
           tags   == [d \in Player |-> IF d \in filled THEN "auto" ELSE s.tags[d]]
           t      == [s EXCEPT !.tags = tags]
<1>1. AutoFilled(s, b) = t
  BY DEF AutoFilled
<1>2. \A d \in filled : s.tags[d] = "none"
  BY DEF Unattended, HoldsUntagged
<1> HIDE DEF filled
<1>3. \A d \in Player : tags[d] = "own" <=> s.tags[d] = "own"
  BY <1>2
<1> HIDE DEF tags
<1>4. /\ t.tags = tags /\ t.dragons = s.dragons /\ t.phase = s.phase
      /\ t.players = s.players /\ t.joinedAt = s.joinedAt /\ t.ready = s.ready
      /\ t.caretaker = s.caretaker /\ t.caring = s.caring /\ t.ballot = s.ballot
      /\ t.eligible = s.eligible /\ t.votes = s.votes /\ t.game = s.game
  BY DEF Session
<1> HIDE DEF t
<1>5. OwnNotes(t) = OwnNotes(s)
  BY <1>3, <1>4 DEF Session, OwnNotes
<1>6. QED
  BY <1>1, <1>4, <1>5 DEF SameProgress, Progress

(* A judgement changes scores, and the phase from Phase2 to Judge.         *)
LEMMA JudgedKeepsProgress ==
  ASSUME TypeOK, NEW task \in JudgeTask
  PROVE  /\ Progress(Judged(task)) = Progress(stored)
         /\ \/ Judged(task).phase = stored.phase
            \/ Judged(task).phase = "Judge" /\ stored.phase = "Phase2"
<1> DEFINE scored == ApplyJudgeScores(Reloaded, task.dragons, task.game)
           turned == EnterPhase(scored, "Judge")
<1>1. Reloaded \in Session /\ SameProgress(stored, Reloaded)
  BY ReloadedKeepsProgress
<1>2. DOMAIN scored = DOMAIN Reloaded /\ SameProgress(Reloaded, scored)
  BY <1>1 DEF ApplyJudgeScores, Session, SameProgress, Progress, OwnNotes
<1> HIDE DEF scored
<1>3. Progress(turned) = Progress(scored) /\ turned.phase = "Judge"
  BY <1>1, <1>2 DEF EnterPhase, Session, Progress, OwnNotes
<1> HIDE DEF turned
<1>4. Judged(task) = IF scored.phase = "Phase2" THEN turned ELSE scored
  BY DEF Judged, scored, turned
<1>5. QED
  BY <1>1, <1>2, <1>3, <1>4 DEF SameProgress

(* Every step saves, refreshes, or touches only what may be lost.          *)
LEMMA NextKeepsProgress ==
  ASSUME IInv, IInv', DurableProgress, [Next]_vars
  PROVE  DurableProgress'
<1>1. TypeOK /\ TypeOK' /\ session \in Session
  BY DEF IInv, TypeOK
<1>2. ASSUME NEW s \in Session, SameProgress(session, s), session' = s, UNCHANGED stored
      PROVE  DurableProgress'
  BY <1>2 DEF SameProgress, DurableProgress
<1>3. CASE \E s : Save(s)
  BY <1>1, <1>3, SavedIsDurable
<1>4. CASE Refresh
  BY <1>1, <1>4, RefreshedIsDurable
<1>5. CASE UNCHANGED <<session, stored>>
  BY <1>5 DEF DurableProgress, Progress, OwnNotes
<1>6. ASSUME PresenceStep PROVE (\E s : Save(s)) \/ Refresh \/ UNCHANGED <<session, stored>>
  BY <1>6 DEF PresenceStep, Join, Rejoin, Attach, Release, Disconnect, AbandonDisconnect,
              ExpireRow
<1>7. CASE CommandStep
  <2>1. PICK p \in Player :
          \/ StartPhase1(p) \/ SelectCharacter(p) \/ StartHandover(p) \/ SubmitTags(p)
          \/ StartPhase2(p) \/ RejectPhase2(p) \/ OpenVoting(p)
          \/ \E d \in Player : SubmitVote(p, d)
          \/ RevealVotingResults(p) \/ EndSession(p) \/ ResetGame(p) \/ RequestJudge(p)
    BY <1>7 DEF CommandStep
  <2>2. CASE RejectPhase2(p)
    <3>1. session' = AutoFilled(session, FALSE) /\ UNCHANGED stored
      BY <2>2 DEF RejectPhase2
    <3>2. SameProgress(session, AutoFilled(session, FALSE))
      BY <1>1, AutoFilledKeepsProgress
    <3>3. QED
      BY <3>1, <3>2 DEF SameProgress, DurableProgress
  <2>3. CASE RequestJudge(p)
    BY <1>5, <2>3 DEF RequestJudge
  <2>4. CASE ~RejectPhase2(p) /\ ~RequestJudge(p)
    <3>1. \E s : Save(s)
      BY <2>1, <2>4 DEF StartPhase1, SelectCharacter, StartHandover, SubmitTags, StartPhase2,
                        OpenVoting, SubmitVote, RevealVotingResults, EndSession, ResetGame
    <3>2. QED
      BY <1>3, <3>1
  <2>5. QED
    BY <2>2, <2>3, <2>4
<1>8. CASE JudgeStep
  <2>1. PICK j \in JudgeRun :
          JudgeSnapshot(j) \/ JudgeApply(j) \/ JudgeFail(j) \/ JudgeLeaseLost(j)
    BY <1>8 DEF JudgeStep
  <2>2. CASE JudgeLeaseLost(j)
    <3>1. session' = Judged(judges[j]) /\ UNCHANGED stored /\ judges[j] \in JudgeTask
      BY <1>1, <2>2 DEF JudgeLeaseLost, TypeOK
    <3>2. /\ Progress(Judged(judges[j])) = Progress(stored)
          /\ \/ Judged(judges[j]).phase = stored.phase
             \/ Judged(judges[j]).phase = "Judge" /\ stored.phase = "Phase2"
      BY <1>1, <3>1, JudgedKeepsProgress
    <3>3. Progress(session') = Progress(stored)
      BY <3>1, <3>2
    <3>4. Progress(stored') = Progress(stored)
      BY <3>1
    <3>5. QED
      BY <3>1, <3>2, <3>3, <3>4 DEF DurableProgress
  <2>3. CASE JudgeSnapshot(j) \/ JudgeApply(j) \/ JudgeFail(j)
    BY <1>3, <1>4, <1>5, <2>3 DEF JudgeSnapshot, JudgeApply, JudgeFail
  <2>4. QED
    BY <2>1, <2>2, <2>3
<1>9. CASE TickerStep
  <2>1. CASE EmitPhaseWarning
    <3> DEFINE t == [session EXCEPT !.warned = TRUE]
    <3>1. t \in Session /\ SameProgress(session, t)
      BY <1>1 DEF Session, SameProgress, Progress, OwnNotes
    <3>2. session' = t /\ UNCHANGED stored
      BY <2>1 DEF EmitPhaseWarning
    <3> HIDE DEF t
    <3>3. QED
      BY <1>2, <3>1, <3>2
  <2>2. CASE TimePasses \/ AdvanceOverduePhase
    BY <1>3, <1>5, <2>2 DEF TimePasses, AdvanceOverduePhase
  <2>3. QED
    BY <1>9, <2>1, <2>2 DEF TickerStep
<1>10. CASE Load
  BY <1>4, <1>10 DEF Load
<1>11. CASE Restart
  BY <1>11 DEF Restart, DurableProgress
<1>12. CASE UNCHANGED vars
  BY <1>5, <1>12 DEF vars
<1>13. QED
  BY <1>3, <1>4, <1>5, <1>6, <1>7, <1>8, <1>9, <1>10, <1>11, <1>12 DEF Next

(* Whatever crashes, reloads, refusals and lost leases come, the cache is  *)
(* never ahead of the store in what players did: a restart costs nothing   *)
(* but presence, warnings, automatic notes and a judgement.                *)
THEOREM ProgressIsDurable == Spec => []DurableProgress
<1>1. Init => DurableProgress
  <2>1. SUFFICES ASSUME Init PROVE DurableProgress
    OBVIOUS
  <2>2. session \in Session /\ stored = Sanitized(session)
    BY <2>1, InitIsSound DEF Init, IInv, TypeOK
  <2>3. SameProgress(session, stored)
    BY <2>2, ConnectedKeepsProgress DEF Sanitized
  <2>4. QED
    BY <2>3 DEF SameProgress, DurableProgress
<1>2. IInv /\ IInv' /\ DurableProgress /\ [Next]_vars => DurableProgress'
  BY NextKeepsProgress
<1>3. QED
  BY <1>1, <1>2, InvariantHolds, PTL DEF Spec
-----------------------------------------------------------------------------
(* Scores of the first game.                                               *)

Matches(s) ==
  \A p \in s.players :
    s.score[p] =
      (IF s.judged[p] # 0 THEN ObservationScore ELSE 0)
      + CareScore * Cardinality({d \in s.dragons :
                      s.judged[d] # 0 /\ s.caretaker[d] = p})

Unjudged(s) == s.score = Zeroes /\ s.judged = Zeroes

(* Nothing is judged before the dragons have a second caretaker: the       *)
(* rotation would move what has been counted.                              *)
Scored(s) ==
  /\ s.phase = "Lobby" => s.dragons = {} /\ Unjudged(s)
  /\ s.phase # "Lobby" => s.game >= 1
  /\ s.game = 1 => Matches(s)
  /\ s.game = 1 /\ s.phase \in {"Phase1", "Handover"} => Unjudged(s)

(* A judge run of the first game has all of its dragons in its bundle, or  *)
(* finds none of them any more; and it starts after the handover.          *)
Fits(s, task) ==
  /\ task.stage # "idle" =>
       s.game >= 1 /\ ~(s.game = 1 /\ s.phase \in {"Phase1", "Handover"})
  /\ task.stage = "thinking" =>
       task.game >= 1 /\ (s.game = 1 => s.dragons \in {task.dragons, {}})

ScoreInv ==
  /\ Scored(session) /\ Scored(stored)
  /\ \A j \in JudgeRun : Fits(session, judges[j])

SameScores(s, t) ==
  /\ t.phase = s.phase /\ t.players = s.players /\ t.dragons = s.dragons
  /\ t.caretaker = s.caretaker /\ t.judged = s.judged /\ t.score = s.score
  /\ t.game = s.game

LEMMA SameScoresScored ==
  ASSUME NEW s, NEW t, Scored(s), SameScores(s, t)
  PROVE  Scored(t)
BY DEF SameScores, Scored, Matches, Unjudged

(* Without a judgement the scores are those of none.                       *)
LEMMA UnjudgedMatches ==
  ASSUME NEW s \in Session, Unjudged(s)
  PROVE  Matches(s)
<1>1. ASSUME NEW p \in s.players
      PROVE  /\ s.judged[p] = 0 /\ s.score[p] = 0
             /\ {d \in s.dragons : s.judged[d] # 0 /\ s.caretaker[d] = p} = {}
  BY DEF Session, Unjudged, Zeroes
<1>2. Cardinality({}) = 0
  BY FS_EmptySet
<1>3. QED
  BY <1>1, <1>2 DEF Matches, CareScore

(* A change of phase that does not come back to what is before judgement.  *)
LEMMA EnterPhaseScored ==
  ASSUME NEW s \in Session, Scored(s), s.phase # "Lobby", NEW next \in Phase \ {"Lobby"},
         next \in {"Phase1", "Handover"} => s.phase \in {"Phase1", "Handover"}
  PROVE  Scored(EnterPhase(s, next))
<1> DEFINE t == EnterPhase(s, next)
<1>1. /\ t.phase = next /\ t.players = s.players /\ t.dragons = s.dragons
      /\ t.caretaker = s.caretaker /\ t.judged = s.judged /\ t.score = s.score
      /\ t.game = s.game
  BY DEF Session, EnterPhase
<1> HIDE DEF t
<1>2. Matches(s) => Matches(t)
  BY <1>1 DEF Matches
<1>3. Scored(t)
  BY <1>1, <1>2 DEF Scored, Unjudged
<1>4. QED
  BY <1>3 DEF t

LEMMA ConnectedScored ==
  ASSUME NEW s \in Session, Scored(s), NEW C
  PROVE  Scored([s EXCEPT !.connected = C])
<1>1. SameScores(s, [s EXCEPT !.connected = C])
  BY DEF Session, SameScores
<1>2. QED
  BY <1>1, SameScoresScored

LEMMA EnsureHostAssignedScored ==
  ASSUME NEW s \in Session, Scored(s), NEW b \in BOOLEAN
  PROVE  Scored(EnsureHostAssigned(s, b))
<1> DEFINE host == IF s.reserved THEN ReservedHost(s, Candidates(s, b))
                                 ELSE NextHost(s, Candidates(s, b))
           t    == [s EXCEPT !.host = host, !.reserved = @ /\ host = NoOne]
<1>1. EnsureHostAssigned(s, b) = t
  BY DEF EnsureHostAssigned
<1> HIDE DEF host
<1>2. SameScores(s, t)
  BY DEF Session, SameScores
<1>3. QED
  BY <1>1, <1>2, SameScoresScored

LEMMA ReloadedScored ==
  ASSUME TypeOK, Scored(stored)
  PROVE  Scored(Reloaded)
<1> DEFINE r == Restored(stored)
           present == rows \cap r.players
           c == [r EXCEPT !.connected = present]
           b == present # {}
<1>1. Sanitized(stored) \in Session /\ Scored(Sanitized(stored))
  BY ConnectedKeepsProgress, ConnectedScored DEF TypeOK, Sanitized
<1>2. r \in Session /\ Scored(r)
  BY <1>1, EnsureHostAssignedKeepsGame, EnsureHostAssignedScored DEF Restored
<1>3. Reloaded = EnsureHostAssigned(c, b) /\ b \in BOOLEAN
  BY DEF Reloaded
<1> HIDE DEF r
<1>4. c \in Session /\ Scored(c)
  <2>1. present \in SUBSET Player
    BY <1>2 DEF Session
  <2>2. QED
    BY <1>2, <2>1, ConnectedKeepsProgress, ConnectedScored
<1> HIDE DEF c, b
<1>5. QED
  BY <1>3, <1>4, EnsureHostAssignedScored

(* Whoever joins a lobby finds no scores there.                            *)
LEMMA AddPlayerScored ==
  ASSUME NEW s, Sound(s), Scored(s), s.phase = "Lobby", NEW p \in Player, NEW b \in BOOLEAN
  PROVE  /\ Scored(AddPlayer(s, p, b))
         /\ AddPlayer(s, p, b).game = s.game
         /\ AddPlayer(s, p, b).dragons = s.dragons /\ AddPlayer(s, p, b).phase = "Lobby"
<1> DEFINE t == AddPlayer(s, p, b)
<1>1. t \in Session
  BY AddPlayerSound DEF Sound
<1>2. /\ t.phase = s.phase /\ t.dragons = s.dragons /\ t.judged = s.judged
      /\ t.score = s.score /\ t.game = s.game
  BY DEF Sound, Session, AddPlayer, EnsureHostAssigned
<1> HIDE DEF t
<1>3. Unjudged(t) /\ t.dragons = {}
  BY <1>2 DEF Scored, Unjudged
<1>4. Matches(t)
  BY <1>1, <1>3, UnjudgedMatches
<1>5. Scored(t)
  BY <1>2, <1>3, <1>4 DEF Scored
<1>6. QED
  BY <1>2, <1>5 DEF t

LEMMA BeginPhase1Scored ==
  ASSUME NEW s, Sound(s)
  PROVE  Scored(BeginPhase1(s)) /\ BeginPhase1(s).game = s.game + 1
<1> DEFINE t == BeginPhase1(s)
<1>1. t \in Session
  BY BeginPhase1Sound DEF Sound
<1>2. /\ t.phase = "Phase1" /\ t.judged = Zeroes /\ t.score = Zeroes /\ t.game = s.game + 1
      /\ s.game \in Nat
  BY DEF Sound, Session, BeginPhase1, EnterPhase
<1> HIDE DEF t
<1>3. Unjudged(t)
  BY <1>2 DEF Unjudged
<1>4. Matches(t)
  BY <1>1, <1>3, UnjudgedMatches
<1>5. Scored(t)
  BY <1>2, <1>3, <1>4 DEF Scored
<1>6. QED
  BY <1>2, <1>5 DEF t

LEMMA AutoFilledScored ==
  ASSUME NEW s \in Session, Scored(s), NEW b \in BOOLEAN
  PROVE  Scored(AutoFilled(s, b)) /\ SameScores(s, AutoFilled(s, b))
<1>1. SameScores(s, AutoFilled(s, b))
  BY DEF Session, AutoFilled, SameScores
<1>2. QED
  BY <1>1, SameScoresScored

(* The rotation moves no scores, since there are none.                     *)
LEMMA RotatedScored ==
  ASSUME NEW s \in Session, Scored(s), s.phase = "Handover", Rotated(s) \in Session
  PROVE  Scored(Rotated(s)) /\ Rotated(s).game = s.game /\ Rotated(s).dragons = s.dragons
<1> DEFINE t == Rotated(s)
<1>1. /\ t.phase = "Phase2" /\ t.judged = s.judged /\ t.score = s.score /\ t.game = s.game
      /\ t.dragons = s.dragons
  BY DEF Session, Rotated, EnterPhase
<1> HIDE DEF t
<1>2. s.game = 1 => Unjudged(t)
  BY <1>1 DEF Scored, Unjudged
<1>3. s.game = 1 => Matches(t)
  BY <1>2, UnjudgedMatches DEF t
<1>4. Scored(t)
  BY <1>1, <1>3 DEF Scored
<1>5. QED
  BY <1>1, <1>4 DEF t

LEMMA EnterVotingScored ==
  ASSUME NEW s \in Session, Scored(s), s.phase \in {"Phase2", "Judge"}
  PROVE  /\ Scored(EnterVoting(s)) /\ EnterVoting(s).phase = "Voting"
         /\ EnterVoting(s).game = s.game /\ EnterVoting(s).dragons = s.dragons
<1> DEFINE e == EnterPhase(s, "Voting")
<1>1. Scored(e) /\ e.phase = "Voting" /\ e.game = s.game /\ e.dragons = s.dragons
      /\ DOMAIN e = DOMAIN s
  <2>1. e.phase = "Voting" /\ e.game = s.game /\ e.dragons = s.dragons /\ DOMAIN e = DOMAIN s
    BY DEF EnterPhase, Session
  <2>2. "Voting" \in Phase \ {"Lobby"}
    BY DEF Phase
  <2>3. QED
    BY <2>1, <2>2, EnterPhaseScored
<1>2. SameScores(e, EnterVoting(s))
  <2>1. DOMAIN s = DOMAIN NewSession
    BY DEF Session, NewSession
  <2>2. QED
    BY <2>1 DEF Session, EnterVoting, EnterPhase, SameScores
<1> HIDE DEF e
<1>3. QED
  BY <1>1, <1>2, SameScoresScored DEF SameScores

LEMMA ResetScored ==
  ASSUME NEW s, Sound(s), NEW p \in Player
  PROVE  /\ Scored(ResetToLobby(s, p)) /\ ResetToLobby(s, p).phase = "Lobby"
         /\ ResetToLobby(s, p).game = s.game /\ ResetToLobby(s, p).dragons = {}
<1> DEFINE t == ResetToLobby(s, p)
<1>1. t \in Session
  BY ResetToLobbySound DEF Sound
<1>2. /\ t.phase = "Lobby" /\ t.game = s.game /\ t.dragons = {}
      /\ t.judged = Zeroes /\ t.score = Zeroes
  BY DEF Sound, Session, ResetToLobby
<1> HIDE DEF t
<1>3. Unjudged(t)
  BY <1>2 DEF Unjudged
<1>4. Matches(t)
  BY <1>1, <1>3, UnjudgedMatches
<1>5. Scored(t)
  BY <1>2, <1>3, <1>4 DEF Scored
<1>6. QED
  BY <1>2, <1>5 DEF t

(* A judgement in the first game is one of all its dragons, or of none.    *)
LEMMA ApplyScored ==
  ASSUME NEW s, Sound(s), Scored(s), NEW E \in SUBSET Player, NEW g \in Nat \ {0},
         s.game = 1 => s.dragons \in {E, {}} /\ s.phase \notin {"Phase1", "Handover"}
  PROVE  /\ Scored(ApplyJudgeScores(s, E, g))
         /\ LET t == ApplyJudgeScores(s, E, g)
            IN  t.phase = s.phase /\ t.game = s.game /\ t.dragons = s.dragons
<1> DEFINE t == ApplyJudgeScores(s, E, g)
           known   == E \cap s.dragons
           care(p) == Cardinality({d \in known : s.caretaker[d] = p})
           judged  == [d \in Player |-> IF d \in known THEN g ELSE s.judged[d]]
           score   == [p \in Player |->
                        IF p \in s.players
                        THEN (IF p \in known THEN ObservationScore ELSE 0) + CareScore * care(p)
                        ELSE 0]
<1>1. /\ t.phase = s.phase /\ t.game = s.game /\ t.dragons = s.dragons
      /\ t.players = s.players /\ t.caretaker = s.caretaker
  BY DEF Sound, Session, ApplyJudgeScores
<1>2. t.judged = judged /\ t.score = score
  BY DEF Sound, Session, ApplyJudgeScores
<1>3. /\ s.players \in SUBSET Player /\ s.dragons \in SUBSET Player
      /\ s.phase # "Lobby" => s.dragons = s.players
      /\ s.judged \in [Player -> Nat]
  BY DEF Sound, Session, Paired
<1> HIDE DEF t
<1>4. CASE s.phase = "Lobby"
  <2>1. known = {}
    BY <1>4 DEF Scored
  <2>2. judged = Zeroes
    <3>1. s.judged = Zeroes
      BY <1>4 DEF Scored, Unjudged
    <3>2. QED
      BY <2>1, <3>1 DEF Zeroes
  <2>3. score = Zeroes
    <3>1. \A p \in Player : care(p) = 0
      <4>1. \A p : {d \in known : s.caretaker[d] = p} = {}
        BY <2>1
      <4>2. QED
        BY <4>1, FS_EmptySet
    <3> HIDE DEF care
    <3>2. QED
      BY <2>1, <3>1 DEF Zeroes, CareScore
  <2>4. Unjudged(t)
    BY <1>2, <2>2, <2>3 DEF Unjudged
  <2>5. t \in Session
    BY ApplyJudgeScoresSound DEF Sound, t
  <2>6. Matches(t)
    BY <2>4, <2>5, UnjudgedMatches
  <2>7. Scored(t)
    BY <1>1, <1>4, <2>4, <2>6 DEF Scored
  <2>8. QED
    BY <1>1, <2>7 DEF t
<1>5. CASE s.phase # "Lobby"
  <2>1. s.game = 1 => Matches(t)
    <3>1. SUFFICES ASSUME s.game = 1, NEW p \in s.players
                   PROVE  t.score[p] = (IF t.judged[p] # 0 THEN ObservationScore ELSE 0)
                            + CareScore * Cardinality({d \in t.dragons :
                                            t.judged[d] # 0 /\ t.caretaker[d] = p})
      BY <1>1 DEF Matches
    <3>2. known = s.dragons \/ s.dragons = {}
      BY <3>1
    <3>3. known = s.dragons
      BY <3>2
    <3>4. \A d \in s.dragons : judged[d] # 0
      BY <1>3, <3>3
    <3>5. p \in known /\ p \in Player
      BY <1>3, <1>5, <3>3
    <3>6. {d \in t.dragons : t.judged[d] # 0 /\ t.caretaker[d] = p}
            = {d \in known : s.caretaker[d] = p}
      BY <1>1, <1>2, <3>3, <3>4
    <3>7. t.judged[p] # 0
      BY <1>2, <3>3, <3>4, <3>5
    <3>8. t.score[p] = ObservationScore + CareScore * care(p)
      <4> HIDE DEF care, known
      <4>1. QED
        BY <1>2, <3>5
    <3>9. QED
      BY <3>6, <3>7, <3>8
  <2>2. Scored(t)
    BY <1>1, <1>5, <2>1 DEF Scored
  <2>3. QED
    BY <1>1, <2>2 DEF t
<1>6. QED
  BY <1>4, <1>5
(* A judge's bundle, applied to what a reload finds.                       *)
LEMMA JudgedScored ==
  ASSUME Sound(Reloaded), Scored(Reloaded), NEW task \in JudgeTask, task.game # 0,
         Reloaded.game = 1 => /\ Reloaded.dragons \in {task.dragons, {}}
                              /\ Reloaded.phase \notin {"Phase1", "Handover"}
  PROVE  /\ Scored(Judged(task))
         /\ Judged(task).game = Reloaded.game /\ Judged(task).dragons = Reloaded.dragons
         /\ \/ Judged(task).phase = Reloaded.phase
            \/ Judged(task).phase = "Judge" /\ Reloaded.phase = "Phase2"
<1> DEFINE scored == ApplyJudgeScores(Reloaded, task.dragons, task.game)
           turned == EnterPhase(scored, "Judge")
<1>1. task.dragons \in SUBSET Player /\ task.game \in Nat \ {0} /\ task.game \in Nat
  BY DEF JudgeTask
<1>2. /\ Sound(scored) /\ Scored(scored)
      /\ scored.phase = Reloaded.phase /\ scored.game = Reloaded.game
      /\ scored.dragons = Reloaded.dragons
  BY <1>1, ApplyScored, ApplyJudgeScoresSound
<1>3. Judged(task) = IF scored.phase = "Phase2" THEN turned ELSE scored
  BY DEF Judged
<1> HIDE DEF scored
<1>4. scored \in Session
  BY <1>2 DEF Sound
<1>5. turned.game = scored.game /\ turned.dragons = scored.dragons /\ turned.phase = "Judge"
  BY <1>4 DEF EnterPhase, Session
<1>6. scored.phase = "Phase2" => Scored(turned)
  BY <1>2, <1>4, EnterPhaseScored DEF Phase
<1> HIDE DEF turned
<1>7. QED
  BY <1>2, <1>3, <1>5, <1>6

LEMMA SavedIsScored ==
  ASSUME TypeOK', NEW s, Save(s), Scored(s)
  PROVE  Scored(session') /\ Scored(stored')
<1>1. s \in Session /\ session' = s /\ stored' = Sanitized(s)
  BY DEF TypeOK, Save
<1>2. Scored(Sanitized(s))
  BY <1>1, ConnectedScored DEF Sanitized
<1>3. QED
  BY <1>1, <1>2

(* The tasks fit a session that is of the same game and did not go back    *)
(* before the handover.                                                    *)
Onward(s, t) ==
  /\ t.game = s.game /\ t.dragons \in {s.dragons, {}}
  /\ t.phase \in {"Phase1", "Handover"} => s.phase \in {"Phase1", "Handover"}

LEMMA FitsOnward ==
  ASSUME NEW s, NEW t, NEW task, Fits(s, task), Onward(s, t)
  PROVE  Fits(t, task)
BY DEF Fits, Onward

LEMMA IdleFits == \A s : Fits(s, IdleTask)
BY DEF Fits, IdleTask

LEMMA TasksKept ==
  ASSUME ScoreInv, NEW s, NEW t, s = session, t = session', Onward(s, t),
         \A j \in JudgeRun : judges'[j] \in {judges[j], IdleTask}
  PROVE  \A j \in JudgeRun : Fits(session', judges'[j])
BY FitsOnward, IdleFits DEF ScoreInv

(* A run that is queued after the handover.                                *)
LEMMA QueuedFits ==
  ASSUME IInv, ScoreInv, QueueJudge, NEW s, NEW t, s = session, t = session', Onward(s, t),
         s.phase # "Lobby", t.phase \notin {"Phase1", "Handover"}
  PROVE  \A j \in JudgeRun : Fits(session', judges'[j])
<1>1. PICK i \in JudgeRun : judges' = [judges EXCEPT ![i].stage = "queued"]
  BY DEF QueueJudge
<1>2. judges \in [JudgeRun -> JudgeTask]
  BY DEF IInv, TypeOK
<1>3. judges'[i].stage = "queued" /\ \A j \in JudgeRun \ {i} : judges'[j] = judges[j]
  BY <1>1, <1>2 DEF JudgeTask
<1>4. t.game >= 1
  BY DEF ScoreInv, Scored, Onward
<1>5. Fits(t, judges'[i])
  BY <1>3, <1>4 DEF Fits
<1>6. \A j \in JudgeRun \ {i} : Fits(t, judges'[j])
  BY <1>3, FitsOnward DEF ScoreInv
<1>7. QED
  BY <1>5, <1>6

(* What the cache and the store share.                                     *)
LEMMA ReloadedOnward ==
  ASSUME IInv, DurableProgress
  PROVE  /\ Onward(session, Reloaded) /\ Onward(session, stored)
         /\ session.game = Reloaded.game /\ session.dragons = Reloaded.dragons
<1>1. SameProgress(stored, Reloaded)
  BY ReloadedKeepsProgress DEF IInv
<1>2. /\ session.game = stored.game /\ session.dragons = stored.dragons
      /\ session.phase = stored.phase \/ (session.phase = "Judge" /\ stored.phase = "Phase2")
  BY DEF DurableProgress, Progress
<1>3. /\ Reloaded.game = stored.game /\ Reloaded.dragons = stored.dragons
      /\ Reloaded.phase = stored.phase
  BY <1>1 DEF SameProgress, Progress
<1>4. QED
  BY <1>2, <1>3 DEF Onward

LEMMA PresenceKeepsScores ==
  ASSUME IInv, IInv', DurableProgress, ScoreInv, PresenceStep
  PROVE  ScoreInv'
<1>1. TypeOK /\ TypeOK' /\ Reloaded \in Session /\ Scored(Reloaded) /\ Sound(Reloaded)
      /\ UNCHANGED judges
  <2>1. UNCHANGED judges
    BY DEF PresenceStep, Join, Rejoin, Attach, Release, Disconnect, AbandonDisconnect, ExpireRow
  <2>2. QED
    BY <2>1, ReloadedScored, ReloadedSound DEF IInv, ScoreInv, TypeOK, Sound
<1>2. ASSUME NEW s, s = session', Onward(Reloaded, s), Scored(s), Save(s)
      PROVE  ScoreInv'
  <2>1. Onward(session, s)
    BY <1>2, ReloadedOnward DEF Onward
  <2>2. Scored(session') /\ Scored(stored')
    BY <1>1, <1>2, SavedIsScored
  <2>3. \A j \in JudgeRun : judges'[j] = judges[j]
    BY <1>1
  <2>4. \A j \in JudgeRun : Fits(session', judges'[j])
    BY <1>2, <2>1, <2>3, FitsOnward DEF ScoreInv
  <2>5. QED
    BY <2>2, <2>4 DEF ScoreInv
<1>3. CASE Refresh
  <2>1. session' = Reloaded /\ stored' = stored
    BY <1>3 DEF Refresh
  <2>2. \A j \in JudgeRun : Fits(session', judges'[j])
    BY <1>1, <2>1, ReloadedOnward, FitsOnward DEF ScoreInv
  <2>3. QED
    BY <1>1, <2>1, <2>2 DEF ScoreInv
<1>4. CASE UNCHANGED <<session, stored>>
  BY <1>1, <1>4 DEF ScoreInv
<1>5. ASSUME NEW C \in SUBSET Player, Save(EnsureHostAssigned([Reloaded EXCEPT !.connected = C], TRUE))
      PROVE  ScoreInv'
  <2> DEFINE c == [Reloaded EXCEPT !.connected = C]
             s == EnsureHostAssigned(c, TRUE)
  <2>1. c \in Session /\ Scored(c) /\ SameProgress(Reloaded, c)
    BY <1>1, ConnectedKeepsProgress, ConnectedScored
  <2> HIDE DEF c
  <2>2. s \in Session /\ Scored(s) /\ SameProgress(c, s)
    BY <2>1, EnsureHostAssignedKeepsGame, EnsureHostAssignedScored, EnsureHostAssignedKeepsProgress
  <2>3. Save(s)
    BY <1>5 DEF c
  <2> HIDE DEF s
  <2>4. Onward(Reloaded, s) /\ s = session'
    BY <2>1, <2>2, <2>3 DEF SameProgress, Progress, Onward, Save
  <2>5. QED
    BY <1>2, <2>2, <2>3, <2>4
<1>6. PICK p \in Player :
        \/ \E b \in BOOLEAN : Join(p, b)
        \/ Rejoin(p) \/ Attach(p) \/ Release(p) \/ Disconnect(p)
        \/ AbandonDisconnect(p) \/ ExpireRow(p)
  BY DEF PresenceStep
<1>7. Reloaded.connected \in SUBSET Player
  BY <1>1 DEF Session
<1>8. ASSUME NEW b \in BOOLEAN, Join(p, b) PROVE ScoreInv'
  <2> DEFINE s == AddPlayer(Reloaded, p, b)
  <2>1. Save(s) /\ Reloaded.phase = "Lobby"
    BY <1>8 DEF Join
  <2>2. Scored(s) /\ s.game = Reloaded.game /\ s.dragons = Reloaded.dragons /\ s.phase = "Lobby"
    BY <1>1, <2>1, AddPlayerScored
  <2> HIDE DEF s
  <2>3. Onward(Reloaded, s) /\ s = session'
    BY <2>1, <2>2 DEF Onward, Save
  <2>4. QED
    BY <1>2, <2>1, <2>2, <2>3
<1>9. CASE Rejoin(p)
  <2>1. Save(EnsureHostAssigned([Reloaded EXCEPT !.connected = Reloaded.connected \cup {p}], TRUE))
    BY <1>9 DEF Rejoin
  <2>2. QED
    BY <1>5, <1>7, <2>1
<1>10. CASE Attach(p)
  <2>1. Refresh \/ Save(EnsureHostAssigned(
                     [Reloaded EXCEPT !.connected = Reloaded.connected \cup {p}], TRUE))
    BY <1>10 DEF Attach
  <2>2. QED
    BY <1>3, <1>5, <1>7, <2>1
<1>11. CASE Disconnect(p)
  <2>1. Refresh \/ Save(EnsureHostAssigned(
                     [Reloaded EXCEPT !.connected = Reloaded.connected \ {p}], TRUE))
    BY <1>11 DEF Disconnect
  <2>2. QED
    BY <1>3, <1>5, <1>7, <2>1
<1>12. CASE Release(p) \/ AbandonDisconnect(p) \/ ExpireRow(p)
  BY <1>4, <1>12 DEF Release, AbandonDisconnect, ExpireRow
<1>13. QED
  BY <1>6, <1>8, <1>9, <1>10, <1>11, <1>12
(* A handler that saves what it made of the cached session.                *)
LEMMA SavingKeepsScores ==
  ASSUME TypeOK', ScoreInv, NEW s, Save(s), Scored(s), Onward(session, s), UNCHANGED judges
  PROVE  ScoreInv'
<1>1. Scored(session') /\ Scored(stored') /\ session' = s
  BY SavedIsScored DEF Save
<1>2. \A j \in JudgeRun : Fits(session', judges'[j])
  BY <1>1, FitsOnward DEF ScoreInv
<1>3. QED
  BY <1>1, <1>2 DEF ScoreInv

LEMMA CommandKeepsScores ==
  ASSUME IInv, IInv', DurableProgress, ScoreInv, CommandStep
  PROVE  ScoreInv'
<1>1. /\ TypeOK' /\ session \in Session /\ Sound(session) /\ Scored(session)
      /\ session' \in Session
  BY DEF IInv, TypeOK, ScoreInv
<1>2. ASSUME NEW s, SameScores(session, s), UNCHANGED judges,
             Save(s) \/ (session' = s /\ UNCHANGED stored)
      PROVE  ScoreInv'
  <2>1. Scored(s) /\ Onward(session, s)
    BY <1>1, <1>2, SameScoresScored DEF SameScores, Onward
  <2>2. CASE Save(s)
    BY <1>1, <1>2, <2>1, <2>2, SavingKeepsScores
  <2>3. CASE session' = s /\ UNCHANGED stored
    BY <1>2, <2>1, <2>3, FitsOnward DEF ScoreInv
  <2>4. QED
    BY <1>2, <2>2, <2>3
<1>3. PICK p \in Player :
        \/ StartPhase1(p) \/ SelectCharacter(p) \/ StartHandover(p) \/ SubmitTags(p)
        \/ StartPhase2(p) \/ RejectPhase2(p) \/ OpenVoting(p)
        \/ \E d \in Player : SubmitVote(p, d)
        \/ RevealVotingResults(p) \/ EndSession(p) \/ ResetGame(p) \/ RequestJudge(p)
  BY DEF CommandStep
<1>4. CASE StartPhase1(p)
  <2>1. Save(BeginPhase1(session)) /\ UNCHANGED judges
    BY <1>4 DEF StartPhase1, MayStartPhase1
  <2>2. Scored(BeginPhase1(session)) /\ BeginPhase1(session).game = session.game + 1
    BY <1>1, BeginPhase1Scored
  <2>3. Scored(session') /\ Scored(stored') /\ session'.game = session.game + 1
    BY <1>1, <2>1, <2>2, SavedIsScored DEF Save
  <2>4. session.game \in Nat
    BY <1>1 DEF Session
  <2>5. ASSUME NEW j \in JudgeRun PROVE Fits(session', judges'[j])
    <3>1. Fits(session, judges[j]) /\ judges'[j] = judges[j]
      BY <2>1 DEF ScoreInv
    <3>2. QED
      BY <2>3, <2>4, <3>1 DEF Fits
  <2>6. QED
    BY <2>3, <2>5 DEF ScoreInv
<1>5. CASE SelectCharacter(p)
  <2> DEFINE t == [session EXCEPT !.ready = @ \cup {p}]
  <2>1. SameScores(session, t) /\ Save(t) /\ UNCHANGED judges
    BY <1>1, <1>5 DEF SelectCharacter, Session, SameScores
  <2> HIDE DEF t
  <2>2. QED
    BY <1>2, <2>1
<1>6. CASE StartHandover(p)
  <2> DEFINE t == EnterPhase(session, "Handover")
  <2>1. Save(t) /\ UNCHANGED judges /\ session.phase = "Phase1"
    BY <1>6 DEF StartHandover, MayStartHandover
  <2>2. Scored(t) /\ Onward(session, t)
    BY <1>1, <2>1, EnterPhaseScored DEF Phase, Session, EnterPhase, Onward
  <2> HIDE DEF t
  <2>3. QED
    BY <1>1, <2>1, <2>2, SavingKeepsScores
<1>7. CASE SubmitTags(p)
  <2> DEFINE t == [session EXCEPT !.tags[session.caring[p]] = "own"]
  <2>1. SameScores(session, t) /\ Save(t) /\ UNCHANGED judges
    BY <1>1, <1>7 DEF SubmitTags, MaySubmitTags, Session, SameScores
  <2> HIDE DEF t
  <2>2. QED
    BY <1>2, <2>1
<1>8. CASE StartPhase2(p)
  <2> DEFINE f == AutoFilled(session, timer = "expired")
             t == Rotated(f)
  <2>1. Save(t) /\ UNCHANGED judges /\ session.phase = "Handover"
    BY <1>8 DEF StartPhase2, MayStartPhase2
  <2>2. Sound(f) /\ f.phase = "Handover" /\ Scored(f) /\ SameScores(session, f)
    BY <1>1, <2>1, AutoFilledSound, AutoFilledScored
  <2> HIDE DEF f
  <2>3. t \in Session /\ f \in Session
    BY <1>1, <2>1, <2>2 DEF Save, Sound
  <2>4. Scored(t) /\ t.game = f.game /\ t.dragons = f.dragons
    BY <2>2, <2>3, RotatedScored
  <2>5. Onward(session, t)
    BY <2>1, <2>2, <2>4 DEF Onward, SameScores
  <2> HIDE DEF t
  <2>6. QED
    BY <1>1, <2>1, <2>4, <2>5, SavingKeepsScores
<1>9. CASE RejectPhase2(p)
  <2>1. session' = AutoFilled(session, FALSE) /\ UNCHANGED <<stored, judges>>
    BY <1>9 DEF RejectPhase2
  <2>2. SameScores(session, AutoFilled(session, FALSE))
    BY <1>1, AutoFilledScored
  <2>3. QED
    BY <1>2, <2>1, <2>2
<1>10. CASE OpenVoting(p)
  <2> DEFINE t == EnterVoting(session)
  <2>1. Save(t) /\ session.phase \in {"Phase2", "Judge"} /\ (QueueJudge \/ UNCHANGED judges)
    BY <1>10 DEF OpenVoting, MayOpenVoting
  <2>2. Scored(t) /\ t.phase = "Voting" /\ Onward(session, t)
    BY <1>1, <2>1, EnterVotingScored DEF Onward
  <2> HIDE DEF t
  <2>3. CASE UNCHANGED judges
    BY <1>1, <2>1, <2>2, <2>3, SavingKeepsScores
  <2>4. CASE QueueJudge
    <3>1. Scored(session') /\ Scored(stored') /\ session' = t
      BY <1>1, <2>1, <2>2, SavedIsScored DEF Save
    <3>2. \A j \in JudgeRun : Fits(session', judges'[j])
      BY <2>1, <2>2, <2>4, <3>1, QueuedFits
    <3>3. QED
      BY <3>1, <3>2 DEF ScoreInv
  <2>5. QED
    BY <2>1, <2>3, <2>4
<1>11. ASSUME NEW d \in Player, SubmitVote(p, d) PROVE ScoreInv'
  <2> DEFINE t == [session EXCEPT !.votes[p] = d]
  <2>1. SameScores(session, t) /\ Save(t) /\ UNCHANGED judges
    BY <1>1, <1>11 DEF SubmitVote, MaySubmitVote, Session, SameScores
  <2> HIDE DEF t
  <2>2. QED
    BY <1>2, <2>1
<1>12. CASE RevealVotingResults(p)
  <2> DEFINE t == [session EXCEPT !.ballot = "revealed"]
  <2>1. SameScores(session, t) /\ Save(t) /\ UNCHANGED judges
    BY <1>1, <1>12 DEF RevealVotingResults, MayReveal, Session, SameScores
  <2> HIDE DEF t
  <2>2. QED
    BY <1>2, <2>1
<1>13. CASE EndSession(p)
  <2> DEFINE t == EnterPhase(session, "End")
  <2>1. Save(t) /\ UNCHANGED judges /\ session.phase = "Voting"
    BY <1>13 DEF EndSession, MayEndSession
  <2>2. Scored(t) /\ Onward(session, t)
    BY <1>1, <2>1, EnterPhaseScored DEF Phase, Session, EnterPhase, Onward
  <2> HIDE DEF t
  <2>3. QED
    BY <1>1, <2>1, <2>2, SavingKeepsScores
<1>14. CASE ResetGame(p)
  <2> DEFINE t == ResetToLobby(session, p)
  <2>1. Save(t) /\ UNCHANGED judges
    BY <1>14 DEF ResetGame
  <2>2. Scored(t) /\ Onward(session, t)
    BY <1>1, ResetScored DEF Onward
  <2> HIDE DEF t
  <2>3. QED
    BY <1>1, <2>1, <2>2, SavingKeepsScores
<1>15. CASE RequestJudge(p)
  <2>1. session.phase = "End" /\ QueueJudge /\ session' = session /\ stored' = stored
    BY <1>15 DEF RequestJudge
  <2>2. \A j \in JudgeRun : Fits(session', judges'[j])
    BY <2>1, QueuedFits DEF Onward
  <2>3. QED
    BY <2>1, <2>2 DEF ScoreInv
<1>16. QED
  BY <1>3, <1>4, <1>5, <1>6, <1>7, <1>8, <1>9, <1>10, <1>11, <1>12, <1>13, <1>14, <1>15

LEMMA JudgeKeepsScores ==
  ASSUME IInv, IInv', DurableProgress, ScoreInv, JudgeStep
  PROVE  ScoreInv'
<1>1. PICK j \in JudgeRun :
        JudgeSnapshot(j) \/ JudgeApply(j) \/ JudgeFail(j) \/ JudgeLeaseLost(j)
  BY DEF JudgeStep
<1>2. /\ TypeOK /\ TypeOK' /\ Sound(Reloaded) /\ Scored(Reloaded)
      /\ judges \in [JudgeRun -> JudgeTask] /\ Onward(session, Reloaded)
      /\ session.game = Reloaded.game /\ session.dragons = Reloaded.dragons
  BY ReloadedSound, ReloadedScored, ReloadedOnward DEF IInv, TypeOK, ScoreInv
<1>3. CASE JudgeSnapshot(j)
  <2> DEFINE task == [stage |-> "thinking", game |-> session.game, dragons |-> session.dragons]
  <2>1. judges' = [judges EXCEPT ![j] = task] /\ session' = session /\ stored' = stored
        /\ judges[j].stage = "queued"
    BY <1>3 DEF JudgeSnapshot
  <2>2. Fits(session, task)
    BY <2>1 DEF ScoreInv, Fits
  <2> HIDE DEF task
  <2>3. \A i \in JudgeRun : Fits(session', judges'[i])
    BY <1>2, <2>1, <2>2 DEF ScoreInv
  <2>4. QED
    BY <2>1, <2>3 DEF ScoreInv
<1>4. ASSUME judges[j].stage = "thinking"
      PROVE  Scored(Judged(judges[j])) /\ Onward(session, Judged(judges[j]))
  <2>1. Fits(session, judges[j]) /\ judges[j] \in JudgeTask
    BY <1>2 DEF ScoreInv
  <2>2. /\ judges[j].game # 0
        /\ Reloaded.game = 1 => /\ Reloaded.dragons \in {judges[j].dragons, {}}
                                /\ Reloaded.phase \notin {"Phase1", "Handover"}
    BY <1>2, <1>4, <2>1 DEF Fits, Onward
  <2>3. /\ Scored(Judged(judges[j]))
        /\ Judged(judges[j]).game = Reloaded.game
        /\ Judged(judges[j]).dragons = Reloaded.dragons
        /\ \/ Judged(judges[j]).phase = Reloaded.phase
           \/ Judged(judges[j]).phase = "Judge" /\ Reloaded.phase = "Phase2"
    BY <1>2, <2>1, <2>2, JudgedScored
  <2>4. QED
    BY <1>2, <2>3 DEF Onward
<1>5. ASSUME judges' = [judges EXCEPT ![j] = IdleTask], Onward(session, session')
      PROVE  \A i \in JudgeRun : Fits(session', judges'[i])
  <2>1. \A i \in JudgeRun : judges'[i] \in {judges[i], IdleTask}
    BY <1>2, <1>5
  <2>2. QED
    BY <1>5, <2>1, TasksKept
<1>6. CASE JudgeApply(j)
  <2> DEFINE t == Judged(judges[j])
  <2>1. Save(t) /\ judges' = [judges EXCEPT ![j] = IdleTask] /\ judges[j].stage = "thinking"
    BY <1>6 DEF JudgeApply
  <2>2. Scored(t) /\ Onward(session, t)
    BY <1>4, <2>1
  <2> HIDE DEF t
  <2>3. Scored(session') /\ Scored(stored') /\ session' = t
    BY <1>2, <2>1, <2>2, SavedIsScored DEF Save
  <2>4. QED
    BY <1>5, <2>1, <2>2, <2>3 DEF ScoreInv
<1>7. CASE JudgeFail(j)
  <2>1. judges' = [judges EXCEPT ![j] = IdleTask]
        /\ stored' = stored /\ session' \in {Reloaded, session}
    BY <1>7 DEF JudgeFail, Refresh
  <2>2. Scored(session') /\ Onward(session, session')
    BY <1>2, <2>1 DEF ScoreInv, Onward
  <2>3. QED
    BY <1>5, <2>1, <2>2 DEF ScoreInv
<1>8. CASE JudgeLeaseLost(j)
  <2>1. /\ session' = Judged(judges[j]) /\ stored' = stored
        /\ judges' = [judges EXCEPT ![j] = IdleTask] /\ judges[j].stage = "thinking"
    BY <1>8 DEF JudgeLeaseLost
  <2>2. Scored(session') /\ Onward(session, session')
    BY <1>4, <2>1
  <2>3. QED
    BY <1>5, <2>1, <2>2 DEF ScoreInv
<1>9. QED
  BY <1>1, <1>3, <1>6, <1>7, <1>8

LEMMA TickerKeepsScores ==
  ASSUME IInv, IInv', DurableProgress, ScoreInv, TickerStep
  PROVE  ScoreInv'
<1>1. /\ TypeOK' /\ session \in Session /\ Sound(session) /\ Scored(session)
      /\ session' \in Session
  BY DEF IInv, TypeOK, ScoreInv
<1>2. CASE TimePasses
  BY <1>2 DEF TimePasses, ScoreInv
<1>3. CASE EmitPhaseWarning
  <2> DEFINE t == [session EXCEPT !.warned = TRUE]
  <2>1. SameScores(session, t) /\ session' = t /\ UNCHANGED <<stored, judges>>
    BY <1>1, <1>3 DEF EmitPhaseWarning, Session, SameScores
  <2> HIDE DEF t
  <2>2. Scored(t) /\ Onward(session, t)
    BY <1>1, <2>1, SameScoresScored DEF SameScores, Onward
  <2>3. QED
    BY <2>1, <2>2, FitsOnward DEF ScoreInv
<1>4. CASE AdvanceOverduePhase /\ session.phase = "Phase1"
  <2> DEFINE t == EnterPhase(session, "Handover")
  <2>1. Save(t) /\ UNCHANGED judges
    BY <1>4 DEF AdvanceOverduePhase
  <2>2. Scored(t) /\ Onward(session, t)
    BY <1>1, <1>4, EnterPhaseScored DEF Phase, Session, EnterPhase, Onward
  <2> HIDE DEF t
  <2>3. QED
    BY <1>1, <2>1, <2>2, SavingKeepsScores
<1>5. CASE AdvanceOverduePhase /\ session.phase = "Handover"
  <2> DEFINE f == AutoFilled(session, TRUE)
             t == Rotated(f)
  <2>1. Save(t) /\ UNCHANGED judges
    BY <1>5 DEF AdvanceOverduePhase
  <2>2. Sound(f) /\ f.phase = "Handover" /\ Scored(f) /\ SameScores(session, f)
    BY <1>1, <1>5, AutoFilledSound, AutoFilledScored
  <2> HIDE DEF f
  <2>3. t \in Session /\ f \in Session
    BY <1>1, <2>1, <2>2 DEF Save, Sound
  <2>4. Scored(t) /\ t.game = f.game /\ t.dragons = f.dragons
    BY <2>2, <2>3, RotatedScored
  <2>5. Onward(session, t)
    BY <1>5, <2>2, <2>4 DEF Onward, SameScores
  <2> HIDE DEF t
  <2>6. QED
    BY <1>1, <2>1, <2>4, <2>5, SavingKeepsScores
<1>6. CASE AdvanceOverduePhase /\ session.phase = "Phase2"
  <2> DEFINE t == EnterVoting(session)
  <2>1. Save(t) /\ QueueJudge
    BY <1>6 DEF AdvanceOverduePhase
  <2>2. Scored(t) /\ t.phase = "Voting" /\ Onward(session, t)
    BY <1>1, <1>6, EnterVotingScored DEF Onward
  <2> HIDE DEF t
  <2>3. Scored(session') /\ Scored(stored') /\ session' = t
    BY <1>1, <2>1, <2>2, SavedIsScored DEF Save
  <2>4. \A j \in JudgeRun : Fits(session', judges'[j])
    BY <1>6, <2>1, <2>2, <2>3, QueuedFits
  <2>5. QED
    BY <2>3, <2>4 DEF ScoreInv
<1>7. QED
  BY <1>2, <1>3, <1>4, <1>5, <1>6 DEF TickerStep, AdvanceOverduePhase

LEMMA NextKeepsScores ==
  ASSUME IInv, IInv', DurableProgress, ScoreInv, [Next]_vars
  PROVE  ScoreInv'
<1>1. CASE PresenceStep
  BY <1>1, PresenceKeepsScores
<1>2. CASE CommandStep
  BY <1>2, CommandKeepsScores
<1>3. CASE JudgeStep
  BY <1>3, JudgeKeepsScores
<1>4. CASE TickerStep
  BY <1>4, TickerKeepsScores
<1>5. CASE Load
  <2>1. session' = Reloaded /\ stored' = stored /\ judges' = judges
    BY <1>5 DEF Load, Refresh
  <2>2. Scored(Reloaded) /\ Onward(session, Reloaded)
    BY ReloadedScored, ReloadedOnward DEF IInv, ScoreInv
  <2>3. QED
    BY <2>1, <2>2, FitsOnward DEF ScoreInv
<1>6. CASE Restart
  <2>1. session' = stored /\ stored' = stored /\ judges' = [j \in JudgeRun |-> IdleTask]
    BY <1>6 DEF Restart
  <2>2. QED
    BY <2>1, IdleFits DEF ScoreInv
<1>7. CASE UNCHANGED vars
  BY <1>7 DEF vars, ScoreInv
<1>8. QED
  BY <1>1, <1>2, <1>3, <1>4, <1>5, <1>6, <1>7 DEF Next

LEMMA InitIsScored == Init => ScoreInv
<1> DEFINE empty == [NewSession EXCEPT !.reserved = FALSE]
<1>1. SUFFICES ASSUME Init PROVE ScoreInv
  OBVIOUS
<1>2. session \in Session /\ stored = Sanitized(session)
  BY InitIsSound, <1>1 DEF Init, IInv, TypeOK
<1>3. NewSession \in Session /\ empty \in Session
  BY DEF NewSession, Session, Phase, NoPlayers, Zeroes, MaybeOne, Notes
<1>4. Scored(NewSession)
  BY DEF NewSession, Scored, Unjudged, Zeroes
<1>5. Scored(empty) /\ Sound(empty) /\ empty.phase = "Lobby"
  <2>1. /\ empty.phase = "Lobby" /\ empty.ballot = "none" /\ empty.eligible = {}
        /\ empty.votes = NoPlayers /\ empty.dragons = {} /\ empty.score = Zeroes
        /\ empty.judged = Zeroes /\ empty.game = 0
    BY DEF NewSession
  <2> HIDE DEF empty
  <2>2. Scored(empty)
    BY <2>1 DEF Scored, Unjudged
  <2>3. Sound(empty)
    BY <1>3, <2>1 DEF Sound, Paired, LegalVotes, CountedBallot, NoPlayers, Swapped, Noted,
                      AfterHandover
  <2>4. QED
    BY <2>1, <2>2, <2>3
<1>6. \/ session = NewSession
      \/ \E p \in OwnersAmong(Player), b \in BOOLEAN : session = AddPlayer(empty, p, b)
  BY <1>1 DEF Init
<1> HIDE DEF empty
<1>7. \A p \in Player, b \in BOOLEAN : Scored(AddPlayer(empty, p, b))
  BY <1>5, AddPlayerScored
<1>8. Scored(session)
  BY <1>4, <1>6, <1>7 DEF OwnersAmong
<1>9. Scored(stored)
  BY <1>2, <1>8, ConnectedScored DEF Sanitized
<1>10. \A j \in JudgeRun : Fits(session, judges[j])
  <2>1. \A j \in JudgeRun : judges[j] = IdleTask
    BY <1>1 DEF Init
  <2>2. QED
    BY <2>1, IdleFits
<1>11. QED
  BY <1>8, <1>9, <1>10 DEF ScoreInv

(* In the first game the scores shown are those of the judgements on the   *)
(* dragons, each counted once, for any number of judge runs, whether they  *)
(* are late, repeated, lose their lease or find the workshop reset.        *)
THEOREM ScoresHoldInFirstGame == Spec => []FirstGameScores
<1>1. IInv /\ IInv' /\ DurableProgress /\ ScoreInv /\ [Next]_vars => ScoreInv'
  BY NextKeepsScores
<1>2. ScoreInv => FirstGameScores
  BY DEF ScoreInv, Scored, Matches, FirstGameScores, ScoresMatchJudgement
<1>3. QED
  BY <1>1, <1>2, InitIsScored, InvariantHolds, ProgressIsDurable, PTL DEF Spec
-----------------------------------------------------------------------------
(* Notes and votes.                                                        *)

WorkKept(s, t) ==
  t.game = s.game /\ t.players = s.players =>
    /\ \A d \in t.dragons : s.tags[d] = "own" => t.tags[d] = "own"
    /\ s.phase = "Voting" /\ t.phase = "Voting" =>
         \A p \in Player : s.votes[p] # NoOne => t.votes[p] # NoOne

LEMMA NotesAndVotesKept ==
  ASSUME NEW s, NEW t, t.dragons \subseteq s.dragons,
         \A d \in t.dragons : s.tags[d] = "own" => t.tags[d] = "own",
         \/ s.phase # "Voting" \/ t.phase # "Voting"
         \/ \A p \in Player : s.votes[p] # NoOne => t.votes[p] # NoOne
  PROVE  WorkKept(s, t)
BY DEF WorkKept

LEMMA SameProgressKeepsWork ==
  ASSUME NEW s, NEW t, Progress(s) = Progress(t)
  PROVE  WorkKept(s, t)
<1>1. s.dragons = t.dragons /\ OwnNotes(s) = OwnNotes(t) /\ s.votes = t.votes
  BY DEF Progress
<1>2. \A d \in t.dragons : s.tags[d] = "own" => t.tags[d] = "own"
  BY <1>1 DEF OwnNotes
<1>3. QED
  BY <1>1, <1>2, NotesAndVotesKept

(* One step for every action: those that start from a reload have what was *)
(* stored, the others what was cached.                                     *)
LEMMA NextKeepsWork ==
  ASSUME IInv, IInv', DurableProgress, [Next]_vars
  PROVE  WorkKept(session, session')
<1>1. /\ TypeOK /\ session \in Session /\ session' \in Session /\ Sound(session)
      /\ Reloaded \in Session /\ Progress(Reloaded) = Progress(session)
      /\ Progress(stored) = Progress(session)
  <2>1. SameProgress(stored, Reloaded) /\ Reloaded \in Session
    BY ReloadedKeepsProgress DEF IInv
  <2>2. QED
    BY <2>1 DEF IInv, TypeOK, DurableProgress, SameProgress
<1>2. CASE session' = session
  BY <1>2, SameProgressKeepsWork
<1>3. CASE Progress(session') = Progress(session)
  BY <1>3, SameProgressKeepsWork
<1>4. CASE Refresh
  BY <1>1, <1>3, <1>4 DEF Refresh
<1>5. ASSUME NEW t, t = session', t.dragons = session.dragons, t.tags = session.tags,
             session.phase # "Voting" \/ t.votes = session.votes
      PROVE  WorkKept(session, session')
  BY <1>5, NotesAndVotesKept
<1>6. ASSUME NEW ph, session' = EnterPhase(session, ph) PROVE WorkKept(session, session')
  <2> DEFINE t == EnterPhase(session, ph)
  <2>1. t.dragons = session.dragons /\ t.tags = session.tags /\ t.votes = session.votes
    BY <1>1 DEF Session, EnterPhase
  <2>2. t = session'
    BY <1>6
  <2> HIDE DEF t
  <2>3. QED
    BY <1>5, <2>1, <2>2
<1>7. ASSUME session' = EnterVoting(session), session.phase # "Voting"
       PROVE  WorkKept(session, session')
  <2> DEFINE t == EnterVoting(session)
  <2>1. t.dragons = session.dragons /\ t.tags = session.tags
    BY <1>1 DEF Session, EnterVoting, EnterPhase
  <2>2. t = session'
    BY <1>7
  <2> HIDE DEF t
  <2>3. QED
    BY <1>5, <1>7, <2>1, <2>2
<1>8. CASE PresenceStep
  <2>1. PICK p \in Player :
          \/ \E b \in BOOLEAN : Join(p, b)
          \/ Rejoin(p) \/ Attach(p) \/ Release(p) \/ Disconnect(p)
          \/ AbandonDisconnect(p) \/ ExpireRow(p)
    BY <1>8 DEF PresenceStep
  <2>2. Reloaded.connected \in SUBSET Player /\ Reloaded.players = session.players
    BY <1>1 DEF Session, Progress
  <2>3. ASSUME NEW C \in SUBSET Player,
               session' = EnsureHostAssigned([Reloaded EXCEPT !.connected = C], TRUE)
        PROVE  WorkKept(session, session')
    <3> DEFINE c == [Reloaded EXCEPT !.connected = C]
    <3>1. c \in Session /\ SameProgress(Reloaded, c)
      BY <1>1, ConnectedKeepsProgress
    <3>2. session' = EnsureHostAssigned(c, TRUE)
      BY <2>3
    <3> HIDE DEF c
    <3>3. SameProgress(c, session')
      BY <3>1, <3>2, EnsureHostAssignedKeepsProgress
    <3>4. QED
      BY <1>1, <1>3, <3>1, <3>3 DEF SameProgress
  <2>4. ASSUME NEW b \in BOOLEAN, Join(p, b) PROVE WorkKept(session, session')
    <3>1. p \notin Reloaded.players /\ session' = AddPlayer(Reloaded, p, b)
      BY <2>4 DEF Join, AccountSeated, Save
    <3>2. p \in AddPlayer(Reloaded, p, b).players
      BY <1>1 DEF AddPlayer, EnsureHostAssigned, Session
    <3>3. session'.players # session.players
      BY <2>2, <3>1, <3>2
    <3>4. QED
      BY <3>3 DEF WorkKept
  <2>5. CASE Rejoin(p)
    BY <2>2, <2>3, <2>5 DEF Rejoin, Save
  <2>6. CASE Attach(p)
    BY <1>4, <2>2, <2>3, <2>6 DEF Attach, Save
  <2>7. CASE Disconnect(p)
    BY <1>4, <2>2, <2>3, <2>7 DEF Disconnect, Save
  <2>8. CASE Release(p) \/ AbandonDisconnect(p) \/ ExpireRow(p)
    BY <1>2, <2>8 DEF Release, AbandonDisconnect, ExpireRow
  <2>9. QED
    BY <2>1, <2>4, <2>5, <2>6, <2>7, <2>8
<1>9. ASSUME NEW b \in BOOLEAN, session' \in {AutoFilled(session, b), Rotated(AutoFilled(session, b))}
      PROVE  WorkKept(session, session')
  <2> DEFINE f == AutoFilled(session, b)
  <2>1. Progress(f) = Progress(session) /\ DOMAIN f = DOMAIN session
    BY <1>1, AutoFilledKeepsProgress DEF SameProgress, AutoFilled, Session
  <2>2. f.dragons = session.dragons /\ OwnNotes(f) = OwnNotes(session)
        /\ f.votes = session.votes
    BY <2>1 DEF Progress
  <2> HIDE DEF f
  <2>3. Rotated(f).dragons = f.dragons /\ Rotated(f).tags = f.tags /\ Rotated(f).votes = f.votes
    BY <1>1, <2>1 DEF Rotated, EnterPhase, Session
  <2>4. \A d \in session.dragons : session.tags[d] = "own" => f.tags[d] = "own"
    BY <2>2 DEF OwnNotes
  <2>5. CASE session' = f
    BY <1>3, <2>1, <2>5
  <2>6. CASE session' = Rotated(f)
    BY <2>2, <2>3, <2>4, <2>6, NotesAndVotesKept
  <2>7. QED
    BY <1>9, <2>5, <2>6 DEF f
<1>10. CASE CommandStep
  <2>1. PICK p \in Player :
          \/ StartPhase1(p) \/ SelectCharacter(p) \/ StartHandover(p) \/ SubmitTags(p)
          \/ StartPhase2(p) \/ RejectPhase2(p) \/ OpenVoting(p)
          \/ \E d \in Player : SubmitVote(p, d)
          \/ RevealVotingResults(p) \/ EndSession(p) \/ ResetGame(p) \/ RequestJudge(p)
    BY <1>10 DEF CommandStep
  <2>2. CASE StartPhase1(p)
    <3>1. session' = BeginPhase1(session) /\ session.game \in Nat
      BY <1>1, <2>2 DEF StartPhase1, MayStartPhase1, Save, Session
    <3>2. session'.game = session.game + 1
      BY <1>1, <3>1, BeginPhase1Scored
    <3>3. QED
      BY <3>1, <3>2 DEF WorkKept
  <2>3. CASE SelectCharacter(p)
    <3> DEFINE t == [session EXCEPT !.ready = @ \cup {p}]
    <3>1. t.dragons = session.dragons /\ t.tags = session.tags /\ t.votes = session.votes
      BY <1>1 DEF Session
    <3>2. t = session'
      BY <2>3 DEF SelectCharacter, Save
    <3> HIDE DEF t
    <3>3. QED
      BY <1>5, <3>1, <3>2
  <2>4. CASE StartHandover(p)
    BY <1>6, <2>4 DEF StartHandover, MayStartHandover, Save
  <2>5. CASE SubmitTags(p)
    <3> DEFINE tags == [session.tags EXCEPT ![session.caring[p]] = "own"]
    <3>1. session' = [session EXCEPT !.tags = tags]
      BY <2>5 DEF SubmitTags, MaySubmitTags, Save
    <3>2. \A d \in Player : session.tags[d] = "own" => tags[d] = "own"
      BY <1>1 DEF Session
    <3> HIDE DEF tags
    <3>3. /\ session'.dragons = session.dragons /\ session'.tags = tags
          /\ session'.votes = session.votes /\ session.dragons \in SUBSET Player
      BY <1>1, <3>1 DEF Session
    <3>4. QED
      BY <3>2, <3>3, NotesAndVotesKept
  <2>6. CASE StartPhase2(p)
    <3>1. session' = Rotated(AutoFilled(session, timer = "expired"))
      BY <2>6 DEF StartPhase2, MayStartPhase2, Save
    <3>2. (timer = "expired") \in BOOLEAN
      OBVIOUS
    <3>3. QED
      BY <1>9, <3>1, <3>2
  <2>7. CASE RejectPhase2(p)
    <3>1. session' = AutoFilled(session, FALSE) /\ FALSE \in BOOLEAN
      BY <2>7 DEF RejectPhase2
    <3>2. QED
      BY <1>9, <3>1
  <2>8. CASE OpenVoting(p)
    BY <1>7, <2>8 DEF OpenVoting, MayOpenVoting, Save
  <2>9. ASSUME NEW d \in Player, SubmitVote(p, d) PROVE WorkKept(session, session')
    <3> DEFINE votes == [session.votes EXCEPT ![p] = d]
    <3>1. session' = [session EXCEPT !.votes = votes]
      BY <2>9 DEF SubmitVote, MaySubmitVote, Save
    <3>2. \A q \in Player : session.votes[q] # NoOne => votes[q] # NoOne
      BY <1>1, NoOneAssumption DEF Session
    <3> HIDE DEF votes
    <3>3. /\ session'.dragons = session.dragons /\ session'.tags = session.tags
          /\ session'.votes = votes
      BY <1>1, <3>1 DEF Session
    <3>4. QED
      BY <3>2, <3>3, NotesAndVotesKept
  <2>10. CASE RevealVotingResults(p)
    <3> DEFINE t == [session EXCEPT !.ballot = "revealed"]
    <3>1. t.dragons = session.dragons /\ t.tags = session.tags /\ t.votes = session.votes
      BY <1>1 DEF Session
    <3>2. t = session'
      BY <2>10 DEF RevealVotingResults, MayReveal, Save
    <3> HIDE DEF t
    <3>3. QED
      BY <1>5, <3>1, <3>2
  <2>11. CASE EndSession(p)
    BY <1>6, <2>11 DEF EndSession, MayEndSession, Save
  <2>12. CASE ResetGame(p)
    <3>1. session' = ResetToLobby(session, p)
      BY <2>12 DEF ResetGame, Save
    <3>2. session'.phase = "Lobby" /\ session'.dragons = {}
      BY <1>1, <3>1 DEF Session, ResetToLobby
    <3>3. QED
      BY <3>2, NotesAndVotesKept
  <2>13. CASE RequestJudge(p)
    BY <1>2, <2>13 DEF RequestJudge
  <2>14. QED
    BY <2>1, <2>2, <2>3, <2>4, <2>5, <2>6, <2>7, <2>8, <2>9, <2>10, <2>11, <2>12, <2>13
<1>11. CASE JudgeStep
  <2>1. PICK j \in JudgeRun :
          JudgeSnapshot(j) \/ JudgeApply(j) \/ JudgeFail(j) \/ JudgeLeaseLost(j)
    BY <1>11 DEF JudgeStep
  <2>2. Progress(Judged(judges[j])) = Progress(session)
    BY <1>1, JudgedKeepsProgress DEF TypeOK
  <2>3. CASE JudgeApply(j) \/ JudgeLeaseLost(j)
    <3>1. session' = Judged(judges[j])
      BY <2>3 DEF JudgeApply, JudgeLeaseLost, Save
    <3>2. QED
      BY <1>3, <2>2, <3>1
  <2>4. CASE JudgeSnapshot(j) \/ JudgeFail(j)
    BY <1>2, <1>4, <2>4 DEF JudgeSnapshot, JudgeFail
  <2>5. QED
    BY <2>1, <2>3, <2>4
<1>12. CASE TickerStep
  <2>1. CASE TimePasses
    BY <1>2, <2>1 DEF TimePasses
  <2>2. CASE EmitPhaseWarning
    <3> DEFINE t == [session EXCEPT !.warned = TRUE]
    <3>1. t.dragons = session.dragons /\ t.tags = session.tags /\ t.votes = session.votes
      BY <1>1 DEF Session
    <3>2. t = session'
      BY <2>2 DEF EmitPhaseWarning
    <3> HIDE DEF t
    <3>3. QED
      BY <1>5, <3>1, <3>2
  <2>3. CASE AdvanceOverduePhase /\ session.phase = "Phase1"
    BY <1>6, <2>3 DEF AdvanceOverduePhase, Save
  <2>4. CASE AdvanceOverduePhase /\ session.phase = "Handover"
    <3>1. session' = Rotated(AutoFilled(session, TRUE)) /\ TRUE \in BOOLEAN
      BY <2>4 DEF AdvanceOverduePhase, Save
    <3>2. QED
      BY <1>9, <3>1
  <2>5. CASE AdvanceOverduePhase /\ session.phase = "Phase2"
    BY <1>7, <2>5 DEF AdvanceOverduePhase, Save
  <2>6. QED
    BY <1>12, <2>1, <2>2, <2>3, <2>4, <2>5 DEF TickerStep, AdvanceOverduePhase
<1>13. CASE Load
  BY <1>4, <1>13 DEF Load
<1>14. CASE Restart
  <2>1. session' = stored
    BY <1>14 DEF Restart
  <2>2. QED
    BY <1>1, <1>3, <2>1
<1>15. CASE UNCHANGED vars
  BY <1>2, <1>15 DEF vars
<1>16. QED
  BY <1>8, <1>10, <1>11, <1>12, <1>13, <1>14, <1>15 DEF Next

(* No reload, close, refusal, judgement, deadline or restart loses notes   *)
(* that a player wrote or a vote that was cast.                            *)
THEOREM NoWorkIsLost == Spec => WorkIsKept
<1>1. IInv /\ IInv' /\ DurableProgress /\ [Next]_vars => [
        session'.game = session.game /\ session'.players = session.players =>
          /\ \A d \in session'.dragons : session.tags[d] = "own" => session'.tags[d] = "own"
          /\ session.phase = "Voting" /\ session'.phase = "Voting" =>
               \A p \in Player : session.votes[p] # NoOne => session'.votes[p] # NoOne ]_vars
  BY NextKeepsWork DEF WorkKept
<1>2. QED
  BY <1>1, InvariantHolds, ProgressIsDurable, PTL DEF Spec, WorkIsKept

-----------------------------------------------------------------------------
(***************************************************************************)
(* That a workshop has the host it is due, for every number of players.    *)
(* Host assignment looks at one copy of the session, but the next reload   *)
(* assigns again from the stored one, so the stored copy must be fit for   *)
(* it: a host is reserved only while the owner has not joined, and the     *)
(* owner joins once.                                                       *)
(***************************************************************************)
(* What every copy keeps, stored ones included.                            *)
FitForHost(s) ==
  /\ s.connected \subseteq s.players
  /\ s.host # NoOne => s.host \in s.players
  /\ s.reserved => s.host = NoOne /\ OwnersAmong(s.players) = {}
  /\ \A p, q \in OwnersAmong(s.players) : p = q

(* What host assignment makes of it.                                       *)
HostDue(s) ==
  /\ s.connected # {} /\ s.host = NoOne => OwnersAmong(s.players) = {}
  /\ OwnersAmong(s.connected) # {} => OwnerHosts(s)

Hosted(s) == FitForHost(s) /\ HostDue(s)

HInv == Hosted(session) /\ FitForHost(stored)

SameHost(s, t) == /\ t.host = s.host /\ t.reserved = s.reserved
                  /\ t.players = s.players /\ t.connected = s.connected

-----------------------------------------------------------------------------
(* A copy with the same players and host is as well hosted.                *)
LEMMA SameHostHosted ==
  ASSUME NEW s, NEW t, SameHost(s, t)
  PROVE  /\ FitForHost(s) => FitForHost(t)
         /\ Hosted(s) => Hosted(t)
BY DEF SameHost, FitForHost, Hosted, HostDue, OwnerHosts

(* Presence is no part of what is fit, as long as it is of players.        *)
LEMMA ConnectedFit ==
  ASSUME NEW s \in Session, FitForHost(s), NEW C \in SUBSET s.players
  PROVE  FitForHost([s EXCEPT !.connected = C])
BY DEF Session, FitForHost

(* Host assignment gives the host that is due, whoever it looks at first.  *)
LEMMA AssignmentHosts ==
  ASSUME NEW s \in Session, FitForHost(s), NEW b \in BOOLEAN
  PROVE  Hosted(EnsureHostAssigned(s, b))
<1> DEFINE here == Candidates(s, b)
           host == IF s.reserved THEN ReservedHost(s, here) ELSE NextHost(s, here)
           t    == [s EXCEPT !.host = host, !.reserved = @ /\ host = NoOne]
<1>1. EnsureHostAssigned(s, b) = t
  BY DEF EnsureHostAssigned
<1>2. here \in SUBSET s.players /\ s.connected \subseteq here /\ here \in SUBSET Player
  BY DEF Candidates, Session, FitForHost
<1>3. OwnersAmong(here) # {} => First(OwnersAmong(here)) \in OwnersAmong(here)
  <2>1. OwnersAmong(here) \in SUBSET Player
    BY <1>2 DEF OwnersAmong
  <2>2. QED
    BY <2>1, FirstIsMember
<1>4. here # {} => Earliest(s, here) \in here
  BY <1>2, EarliestIsMember DEF Session
<1>5. OwnersAmong(s.connected) \subseteq OwnersAmong(here)
      /\ OwnersAmong(here) \subseteq OwnersAmong(s.players)
  BY <1>2 DEF OwnersAmong
<1>6. CASE s.reserved
  <2>1. host = NoOne
    BY <1>5, <1>6 DEF FitForHost, ReservedHost, OwnersAmong, OwnerHosts
  <2>2. SameHost(s, t)
    <3> HIDE DEF host
    <3>1. QED
      BY <1>6, <2>1 DEF SameHost, Session, FitForHost
  <2>3. HostDue(s)
    BY <1>5, <1>6 DEF HostDue, FitForHost
  <2>4. QED
    BY <1>1, <2>2, <2>3, SameHostHosted DEF Hosted
<1>7. CASE ~s.reserved
  <2>1. host = NextHost(s, here)
    BY <1>7
  <2>2. host # NoOne => host \in s.players
    BY <1>2, <1>3, <1>4, <2>1, NoOneAssumption DEF NextHost, HostOrEarliest, FitForHost, OwnersAmong
  <2>3. OwnersAmong(here) # {} => host \in s.players /\ AccountOf[host] = Owner
    <3>1. SUFFICES ASSUME OwnersAmong(here) # {}
                   PROVE  host \in s.players /\ AccountOf[host] = Owner
      OBVIOUS
    <3>2. First(OwnersAmong(here)) \in s.players /\ AccountOf[First(OwnersAmong(here))] = Owner
      BY <1>2, <1>3, <3>1 DEF OwnersAmong
    <3>3. CASE OwnerHosts(s)
      <4>1. PICK p \in OwnersAmong(here) : TRUE
        BY <3>1
      <4>2. p \in OwnersAmong(s.players) /\ s.host \in OwnersAmong(s.players)
        BY <1>5, <3>3, <4>1 DEF OwnerHosts, OwnersAmong
      <4>3. s.host = p /\ p \in here
        BY <4>1, <4>2 DEF FitForHost, OwnersAmong
      <4> HIDE DEF here
      <4>4. NextHost(s, here) = s.host
        BY <3>3, <4>3 DEF NextHost, HostOrEarliest
      <4>5. QED
        BY <2>1, <3>3, <4>4 DEF OwnerHosts
    <3>4. CASE ~OwnerHosts(s)
      <4> HIDE DEF here
      <4>1. NextHost(s, here) = First(OwnersAmong(here))
        BY <3>1, <3>4 DEF NextHost, HostOrEarliest
      <4>2. QED
        BY <2>1, <3>2, <4>1
    <3>5. QED
      BY <3>3, <3>4
  <2>4. here # {} /\ host = NoOne => OwnersAmong(s.players) = {}
    BY <1>2, <1>3, <1>4, <2>1, NoOneAssumption DEF NextHost, HostOrEarliest, OwnersAmong
  <2> HIDE DEF host, here
  <2>5. /\ t.host = host /\ t.players = s.players /\ t.connected = s.connected
        /\ ~t.reserved
    BY <1>7 DEF Session
  <2> HIDE DEF t
  <2>6. FitForHost(t)
    BY <2>2, <2>5 DEF FitForHost
  <2>7. HostDue(t)
    BY <1>2, <1>5, <2>3, <2>4, <2>5 DEF HostDue, OwnerHosts
  <2>8. QED
    BY <1>1, <2>6, <2>7 DEF Hosted
<1>8. QED
  BY <1>6, <1>7

(* A reload hosts whatever was stored.                                     *)
LEMMA ReloadedHosted ==
  ASSUME TypeOK, FitForHost(stored)
  PROVE  Reloaded \in Session /\ Hosted(Reloaded)
<1> DEFINE r == Restored(stored)
           present == rows \cap r.players
           c == [r EXCEPT !.connected = present]
           b == present # {}
<1>1. Sanitized(stored) \in Session /\ FitForHost(Sanitized(stored))
  BY ConnectedKeepsProgress, ConnectedFit DEF TypeOK, Sanitized
<1>2. r \in Session /\ FitForHost(r)
  BY <1>1, EnsureHostAssignedKeepsGame, AssignmentHosts DEF Restored, Hosted
<1>3. Reloaded = EnsureHostAssigned(c, b) /\ b \in BOOLEAN
  BY DEF Reloaded
<1> HIDE DEF r
<1>4. c \in Session /\ FitForHost(c)
  <2>1. present \in SUBSET Player /\ present \in SUBSET r.players
    BY <1>2 DEF Session
  <2>2. QED
    BY <1>2, <2>1, ConnectedKeepsProgress, ConnectedFit
<1> HIDE DEF c, b
<1>5. QED
  BY <1>3, <1>4, EnsureHostAssignedKeepsGame, AssignmentHosts

(* A player who comes back, is seen, or leaves: presence, then the host.   *)
LEMMA PresenceHosted ==
  ASSUME NEW s \in Session, FitForHost(s), NEW C \in SUBSET s.players
  PROVE  Hosted(EnsureHostAssigned([s EXCEPT !.connected = C], TRUE))
<1>1. C \in SUBSET Player
  BY DEF Session
<1>2. QED
  BY <1>1, ConnectedFit, ConnectedKeepsProgress, AssignmentHosts

(* A new player: the owner takes a seat that was kept or free.             *)
LEMMA AddPlayerHosted ==
  ASSUME NEW s \in Session, FitForHost(s), NEW p \in Player, NEW b \in BOOLEAN,
         ~AccountSeated(s, AccountOf[p])
  PROVE  AddPlayer(s, p, b) \in Session /\ Hosted(AddPlayer(s, p, b))
<1> DEFINE owns == AccountOf[p] = Owner
           seated == [s EXCEPT
             !.players = @ \cup {p}, !.connected = @ \cup {p},
             !.ready = IF b THEN @ \cup {p} ELSE @,
             !.joins = @ + 1, !.joinedAt[p] = s.joins + 1]
           t == [seated EXCEPT !.host = IF owns /\ (s.reserved \/ s.host = NoOne) THEN p ELSE @,
                               !.reserved = @ /\ ~owns]
<1>1. AddPlayer(s, p, b) = EnsureHostAssigned(t, FALSE)
  BY DEF AddPlayer
<1>2. seated \in Session
  <2> DEFINE players   == s.players \cup {p}
             connected == s.connected \cup {p}
             ready     == IF b THEN s.ready \cup {p} ELSE s.ready
             joins     == s.joins + 1
             joinedAt  == [s.joinedAt EXCEPT ![p] = joins]
  <2>1. /\ players \in SUBSET Player /\ connected \in SUBSET Player
        /\ ready \in SUBSET Player /\ joins \in Nat
    BY DEF Session
  <2>2. joinedAt \in [Player -> Nat]
    <3> HIDE DEF joins
    <3>1. QED
      BY <2>1 DEF Session
  <2>3. seated = [s EXCEPT !.players = players, !.connected = connected, !.ready = ready,
                           !.joins = joins, !.joinedAt = joinedAt]
    OBVIOUS
  <2> HIDE DEF players, connected, ready, joins, joinedAt, seated, t
  <2>4. QED
    BY <2>1, <2>2, <2>3 DEF Session
<1>3. /\ seated.players = s.players \cup {p} /\ seated.connected = s.connected \cup {p}
      /\ seated.host = s.host /\ seated.reserved = s.reserved
  BY DEF Session
<1> HIDE DEF seated
<1>4. t \in Session
  BY <1>2 DEF Session, MaybeOne
<1>5. /\ t.players = s.players \cup {p} /\ t.connected = s.connected \cup {p}
      /\ t.host = (IF owns /\ (s.reserved \/ s.host = NoOne) THEN p ELSE s.host)
      /\ t.reserved = (s.reserved /\ ~owns)
  BY <1>2, <1>3 DEF Session
<1> HIDE DEF t
<1>6. FitForHost(t)
  <2>1. owns => OwnersAmong(s.players) = {}
    BY DEF AccountSeated, OwnersAmong
  <2>2. OwnersAmong(t.players) = IF owns THEN {p} ELSE OwnersAmong(s.players)
    BY <1>5, <2>1 DEF OwnersAmong
  <2>3. QED
    BY <1>5, <2>1, <2>2 DEF FitForHost
<1>7. QED
  BY <1>1, <1>4, <1>6, AssignmentHosts, EnsureHostAssignedKeepsGame

(* The host keeps the seat through a reset.                                *)
LEMMA ResetHosted ==
  ASSUME NEW s \in Session, Hosted(s), NEW p \in Player, p = s.host
  PROVE  Hosted(ResetToLobby(s, p))
<1> DEFINE t == ResetToLobby(s, p)
<1>1. /\ t.players = {p} /\ t.connected = s.connected \cap {p} /\ t.host = p
      /\ t.reserved = s.reserved
  BY DEF Session, ResetToLobby
<1>2. ~s.reserved /\ p # NoOne
  BY NoOneAssumption DEF Hosted, FitForHost
<1> HIDE DEF t
<1>3. FitForHost(t) /\ HostDue(t)
  BY <1>1, <1>2 DEF FitForHost, HostDue, OwnersAmong, OwnerHosts
<1>4. QED
  BY <1>3 DEF Hosted, t

(* The judge scores a reloaded copy and leaves its host alone.             *)
LEMMA JudgedHosted ==
  ASSUME Reloaded \in Session, Hosted(Reloaded), NEW task \in JudgeTask
  PROVE  Hosted(Judged(task))
<1> DEFINE scored == ApplyJudgeScores(Reloaded, task.dragons, task.game)
           turned == EnterPhase(scored, "Judge")
<1>1. SameHost(Reloaded, scored) /\ DOMAIN scored = DOMAIN Reloaded
  BY DEF Session, ApplyJudgeScores, SameHost
<1>2. Judged(task) = IF scored.phase = "Phase2" THEN turned ELSE scored
  BY DEF Judged
<1> HIDE DEF scored
<1>3. SameHost(scored, turned)
  BY <1>1 DEF Session, EnterPhase, SameHost
<1> HIDE DEF turned
<1>4. Hosted(scored)
  BY <1>1, SameHostHosted
<1>5. Hosted(turned)
  BY <1>3, <1>4, SameHostHosted
<1>6. QED
  BY <1>2, <1>4, <1>5

(* The operations of the commands, one by one.                             *)
LEMMA CommandsKeepHost ==
  ASSUME NEW s \in Session
  PROVE  /\ \A ph : SameHost(s, EnterPhase(s, ph))
         /\ SameHost(s, BeginPhase1(s))
         /\ SameHost(s, EnterVoting(s))
         /\ \A b \in BOOLEAN : SameHost(s, AutoFilled(s, b))
         /\ \A b \in BOOLEAN : SameHost(s, Rotated(AutoFilled(s, b)))
<1>1. \A ph : SameHost(s, EnterPhase(s, ph)) /\ DOMAIN EnterPhase(s, ph) = DOMAIN s
  BY DEF Session, EnterPhase, SameHost
<1>2. SameHost(s, BeginPhase1(s))
  BY DEF Session, BeginPhase1, EnterPhase, SameHost
<1>3. SameHost(s, EnterVoting(s))
  BY DEF Session, EnterVoting, EnterPhase, SameHost
<1>4. ASSUME NEW b \in BOOLEAN
      PROVE  SameHost(s, AutoFilled(s, b)) /\ SameHost(s, Rotated(AutoFilled(s, b)))
  <2> DEFINE f == AutoFilled(s, b)
  <2>1. SameHost(s, f) /\ DOMAIN f = DOMAIN s
    BY DEF Session, AutoFilled, SameHost
  <2> HIDE DEF f
  <2>2. SameHost(f, Rotated(f))
    BY <2>1 DEF Session, Rotated, EnterPhase, SameHost
  <2>3. QED
    BY <2>1, <2>2 DEF SameHost, f
<1>5. QED
  BY <1>1, <1>2, <1>3, <1>4

-----------------------------------------------------------------------------
(* Every step.                                                             *)

LEMMA SavedIsHosted ==
  ASSUME TypeOK', NEW s, Save(s), Hosted(s)
  PROVE  HInv'
<1>1. session' = s /\ stored' = Sanitized(s) /\ s \in Session
  BY DEF Save, TypeOK
<1>2. FitForHost(Sanitized(s))
  BY <1>1, ConnectedFit DEF Hosted, Sanitized
<1>3. QED
  BY <1>1, <1>2 DEF HInv

LEMMA SameHostKept ==
  ASSUME TypeOK', HInv, NEW s, SameHost(session, s),
         Save(s) \/ (session' = s /\ UNCHANGED stored)
  PROVE  HInv'
BY SameHostHosted, SavedIsHosted DEF HInv

LEMMA HostKept ==
  ASSUME IInv, IInv', HInv, [Next]_vars
  PROVE  HInv'
<1>1. TypeOK /\ TypeOK' /\ session \in Session /\ FitForHost(stored)
  BY DEF IInv, TypeOK, HInv
<1>2. Reloaded \in Session /\ Hosted(Reloaded) /\ FitForHost(Reloaded)
  BY <1>1, ReloadedHosted DEF Hosted
<1>3. CASE Refresh
  BY <1>1, <1>2, <1>3 DEF Refresh, HInv
<1>4. CASE UNCHANGED <<session, stored>>
  BY <1>4 DEF HInv
<1>5. CASE PresenceStep
  <2> DEFINE seen(C) == EnsureHostAssigned([Reloaded EXCEPT !.connected = C], TRUE)
  <2>1. PICK p \in Player :
          \/ \E b \in BOOLEAN : Join(p, b)
          \/ Rejoin(p) \/ Attach(p) \/ Release(p) \/ Disconnect(p)
          \/ AbandonDisconnect(p) \/ ExpireRow(p)
    BY <1>5 DEF PresenceStep
  <2>2. \A C \in SUBSET Reloaded.players : Hosted(seen(C))
    BY <1>2, PresenceHosted
  <2>3. Reloaded.connected \in SUBSET Reloaded.players
    BY <1>2 DEF FitForHost
  <2>4. ASSUME NEW b \in BOOLEAN, Join(p, b) PROVE HInv'
    <3>1. Save(AddPlayer(Reloaded, p, b)) /\ ~AccountSeated(Reloaded, AccountOf[p])
      BY <2>4 DEF Join
    <3>2. QED
      BY <1>1, <1>2, <3>1, AddPlayerHosted, SavedIsHosted
  <2>5. CASE p \in Reloaded.players /\ Save(seen(Reloaded.connected \cup {p}))
    <3>1. Hosted(seen(Reloaded.connected \cup {p}))
      BY <2>2, <2>3, <2>5
    <3> HIDE DEF seen
    <3>2. QED
      BY <1>1, <2>5, <3>1, SavedIsHosted
  <2>6. CASE Save(seen(Reloaded.connected \ {p}))
    <3>1. Hosted(seen(Reloaded.connected \ {p}))
      BY <2>2, <2>3
    <3> HIDE DEF seen
    <3>2. QED
      BY <1>1, <2>6, <3>1, SavedIsHosted
  <2>7. CASE Rejoin(p)
    BY <2>5, <2>7 DEF Rejoin
  <2>8. CASE Attach(p)
    BY <1>3, <2>5, <2>8 DEF Attach
  <2>9. CASE Disconnect(p)
    BY <1>3, <2>6, <2>9 DEF Disconnect
  <2>10. CASE Release(p) \/ AbandonDisconnect(p) \/ ExpireRow(p)
    BY <1>4, <2>10 DEF Release, AbandonDisconnect, ExpireRow
  <2>11. QED
    BY <2>1, <2>4, <2>7, <2>8, <2>9, <2>10
<1>6. CASE CommandStep
  <2>1. PICK p \in Player :
          \/ StartPhase1(p) \/ SelectCharacter(p) \/ StartHandover(p) \/ SubmitTags(p)
          \/ StartPhase2(p) \/ RejectPhase2(p) \/ OpenVoting(p)
          \/ \E d \in Player : SubmitVote(p, d)
          \/ RevealVotingResults(p) \/ EndSession(p) \/ ResetGame(p) \/ RequestJudge(p)
    BY <1>6 DEF CommandStep
  <2>2. (timer = "expired") \in BOOLEAN /\ FALSE \in BOOLEAN
    OBVIOUS
  <2>3. CASE StartPhase1(p)
    BY <1>1, <2>3, CommandsKeepHost, SameHostKept DEF StartPhase1, MayStartPhase1
  <2>4. CASE SelectCharacter(p)
    <3> DEFINE t == [session EXCEPT !.ready = @ \cup {p}]
    <3>1. SameHost(session, t) /\ Save(t)
      BY <1>1, <2>4 DEF SelectCharacter, Session, SameHost
    <3> HIDE DEF t
    <3>2. QED
      BY <1>1, <3>1, SameHostKept
  <2>5. CASE StartHandover(p)
    BY <1>1, <2>5, CommandsKeepHost, SameHostKept DEF StartHandover, MayStartHandover
  <2>6. CASE SubmitTags(p)
    <3> DEFINE t == [session EXCEPT !.tags[session.caring[p]] = "own"]
    <3>1. SameHost(session, t) /\ Save(t)
      BY <1>1, <2>6 DEF SubmitTags, MaySubmitTags, Session, SameHost
    <3> HIDE DEF t
    <3>2. QED
      BY <1>1, <3>1, SameHostKept
  <2>7. CASE StartPhase2(p)
    <3> DEFINE t == Rotated(AutoFilled(session, timer = "expired"))
    <3>1. Save(t) /\ SameHost(session, t)
      BY <1>1, <2>2, <2>7, CommandsKeepHost DEF StartPhase2, MayStartPhase2
    <3> HIDE DEF t
    <3>2. QED
      BY <1>1, <3>1, SameHostKept
  <2>8. CASE RejectPhase2(p)
    <3> DEFINE t == AutoFilled(session, FALSE)
    <3>1. session' = t /\ UNCHANGED stored /\ SameHost(session, t)
      BY <1>1, <2>2, <2>8, CommandsKeepHost DEF RejectPhase2
    <3> HIDE DEF t
    <3>2. QED
      BY <1>1, <3>1, SameHostKept
  <2>9. CASE OpenVoting(p)
    BY <1>1, <2>9, CommandsKeepHost, SameHostKept DEF OpenVoting, MayOpenVoting
  <2>10. ASSUME NEW d \in Player, SubmitVote(p, d) PROVE HInv'
    <3> DEFINE t == [session EXCEPT !.votes[p] = d]
    <3>1. SameHost(session, t) /\ Save(t)
      BY <1>1, <2>10 DEF SubmitVote, MaySubmitVote, Session, SameHost
    <3> HIDE DEF t
    <3>2. QED
      BY <1>1, <3>1, SameHostKept
  <2>11. CASE RevealVotingResults(p)
    <3> DEFINE t == [session EXCEPT !.ballot = "revealed"]
    <3>1. SameHost(session, t) /\ Save(t)
      BY <1>1, <2>11 DEF RevealVotingResults, MayReveal, Session, SameHost
    <3> HIDE DEF t
    <3>2. QED
      BY <1>1, <3>1, SameHostKept
  <2>12. CASE EndSession(p)
    BY <1>1, <2>12, CommandsKeepHost, SameHostKept DEF EndSession, MayEndSession
  <2>13. CASE ResetGame(p)
    <3>1. p = session.host /\ Save(ResetToLobby(session, p))
      BY <2>13 DEF ResetGame, IsHost
    <3>2. Hosted(ResetToLobby(session, p))
      BY <1>1, <3>1, ResetHosted DEF HInv
    <3>3. QED
      BY <1>1, <3>1, <3>2, SavedIsHosted
  <2>14. CASE RequestJudge(p)
    BY <1>4, <2>14 DEF RequestJudge
  <2>15. QED
    BY <2>1, <2>3, <2>4, <2>5, <2>6, <2>7, <2>8, <2>9, <2>10, <2>11, <2>12, <2>13, <2>14
<1>7. CASE JudgeStep
  <2>1. PICK j \in JudgeRun :
          JudgeSnapshot(j) \/ JudgeApply(j) \/ JudgeFail(j) \/ JudgeLeaseLost(j)
    BY <1>7 DEF JudgeStep
  <2>2. Hosted(Judged(judges[j]))
    BY <1>1, <1>2, JudgedHosted DEF TypeOK
  <2>3. CASE JudgeApply(j)
    BY <1>1, <2>2, <2>3, SavedIsHosted DEF JudgeApply
  <2>4. CASE JudgeLeaseLost(j)
    BY <2>2, <2>4 DEF JudgeLeaseLost, HInv
  <2>5. CASE JudgeSnapshot(j) \/ JudgeFail(j)
    BY <1>3, <1>4, <2>5 DEF JudgeSnapshot, JudgeFail
  <2>6. QED
    BY <2>1, <2>3, <2>4, <2>5
<1>8. CASE TickerStep
  <2>1. TRUE \in BOOLEAN
    OBVIOUS
  <2>2. CASE EmitPhaseWarning
    <3> DEFINE t == [session EXCEPT !.warned = TRUE]
    <3>1. session' = t /\ UNCHANGED stored /\ SameHost(session, t)
      BY <1>1, <2>2 DEF EmitPhaseWarning, Session, SameHost
    <3> HIDE DEF t
    <3>2. QED
      BY <1>1, <3>1, SameHostKept
  <2>3. CASE AdvanceOverduePhase
    BY <1>1, <2>1, <2>3, CommandsKeepHost, SameHostKept DEF AdvanceOverduePhase
  <2>4. CASE TimePasses
    BY <1>4, <2>4 DEF TimePasses
  <2>5. QED
    BY <1>8, <2>2, <2>3, <2>4 DEF TickerStep
<1>9. CASE Load
  BY <1>3, <1>9 DEF Load
<1>10. CASE Restart
  <2>1. session' = stored /\ stored' = stored /\ stored.connected = {}
    BY <1>1, <1>10 DEF Restart, TypeOK
  <2>2. HostDue(stored)
    BY <2>1 DEF HostDue, OwnersAmong
  <2>3. QED
    BY <1>1, <2>1, <2>2 DEF HInv, Hosted
<1>11. CASE UNCHANGED vars
  BY <1>4, <1>11 DEF vars
<1>12. QED
  BY <1>5, <1>6, <1>7, <1>8, <1>9, <1>10, <1>11 DEF Next

LEMMA InitIsHosted == Init => HInv
<1> DEFINE empty == [NewSession EXCEPT !.reserved = FALSE]
<1>1. SUFFICES ASSUME Init PROVE HInv
  OBVIOUS
<1>2. session \in Session /\ stored = Sanitized(session)
  BY <1>1, InitIsSound DEF Init, IInv, TypeOK
<1>3. Hosted(NewSession)
  BY DEF NewSession, Hosted, FitForHost, HostDue, OwnersAmong
<1>4. empty \in Session /\ empty.players = {} /\ empty.host = NoOne
      /\ empty.connected = {} /\ ~empty.reserved
  BY DEF NewSession, Session, Phase, NoPlayers, Zeroes, MaybeOne, Notes
<1>5. \/ session = NewSession
      \/ \E p \in OwnersAmong(Player), b \in BOOLEAN : session = AddPlayer(empty, p, b)
  BY <1>1 DEF Init
<1> HIDE DEF empty
<1>6. FitForHost(empty) /\ \A a : ~AccountSeated(empty, a)
  BY <1>4 DEF FitForHost, OwnersAmong, AccountSeated
<1>7. \A p \in Player, b \in BOOLEAN : Hosted(AddPlayer(empty, p, b))
  BY <1>4, <1>6, AddPlayerHosted
<1>8. Hosted(session)
  BY <1>3, <1>5, <1>7 DEF OwnersAmong
<1>9. FitForHost(Sanitized(session))
  BY <1>2, <1>8, ConnectedFit DEF Hosted, Sanitized
<1>10. QED
  BY <1>2, <1>8, <1>9 DEF HInv

-----------------------------------------------------------------------------
(* Whatever joins, reloads, disconnects, resets and restarts come: while   *)
(* somebody is online a workshop lacks a host only if its owner never      *)
(* joined, the host is a player, and an owner who is online is the host.   *)
THEOREM HostsAreDue == Spec => []HostIsDue
<1>1. IInv /\ IInv' /\ HInv /\ [Next]_vars => HInv'
  BY HostKept
<1>2. HInv => HostIsDue
  BY DEF HInv, Hosted, FitForHost, HostDue, HostIsDue, HostlessOnlyWithoutOwner,
         ConnectedOwnerHosts
<1>3. QED
  BY <1>1, <1>2, InitIsHosted, InvariantHolds, PTL DEF Spec
-----------------------------------------------------------------------------
(* What is stored is the game the players were promised.                   *)

(* Two copies that tell the players the same, but for the phase.           *)
ToldAlike(s, t) ==
  /\ t.players = s.players /\ t.dragons = s.dragons /\ t.caring = s.caring
  /\ OwnNotes(t) = OwnNotes(s) /\ t.game = s.game
  /\ t.ballot = s.ballot /\ t.eligible = s.eligible /\ t.votes = s.votes

(* The instance counts as everybody does.                                  *)
LEMMA GameCounts == \A S : Game!Cardinality(S) = Cardinality(S)
BY DEF Game!Cardinality, Cardinality

LEMMA SameProgressAlike ==
  ASSUME NEW s, NEW t, Progress(t) = Progress(s)
  PROVE  ToldAlike(s, t)
BY DEF Progress, ToldAlike

(* What a handler saves is what is told from then on.                      *)
LEMMA SavedIsTold ==
  ASSUME TypeOK', NEW s, Save(s)
  PROVE  s \in Session /\ ToldAlike(s, stored') /\ stored'.phase = s.phase
<1>1. s \in Session /\ stored' = Sanitized(s)
  BY DEF TypeOK, Save
<1>2. SameProgress(s, Sanitized(s))
  BY <1>1, ConnectedKeepsProgress DEF Sanitized
<1>3. QED
  BY <1>1, <1>2, SameProgressAlike DEF SameProgress

(* A handler that works on the cached copy works on what is told, but that *)
(* the cache may know of a judgement the store does not.                   *)
LEMMA CachedIsTold ==
  ASSUME DurableProgress
  PROVE  /\ ToldAlike(stored, session)
         /\ \/ session.phase = stored.phase
            \/ session.phase = "Judge" /\ stored.phase = "Phase2"
BY SameProgressAlike DEF DurableProgress

LEMMA ToldSameIsStutter ==
  ASSUME ToldAlike(stored, stored'), stored'.phase = stored.phase
  PROVE  UNCHANGED Game!game_vars
BY DEF ToldAlike, Game!game_vars

LEMMA JudgeIsTold ==
  ASSUME ToldAlike(stored, stored'), stored.phase = "Phase2", stored'.phase = "Judge"
  PROVE  Game!Judge
BY DEF ToldAlike, Game!Judge, Game!Same, Game!SameVote

-----------------------------------------------------------------------------
(* Presence and reloads tell nothing new, joining seats a player.          *)
LEMMA ReloadedSavedTellsNothing ==
  ASSUME TypeOK, TypeOK', NEW C \in SUBSET Player, NEW b \in BOOLEAN,
         Save(EnsureHostAssigned([Reloaded EXCEPT !.connected = C], b))
  PROVE  UNCHANGED Game!game_vars
<1> DEFINE c == [Reloaded EXCEPT !.connected = C]
           e == EnsureHostAssigned(c, b)
<1>1. Reloaded \in Session /\ SameProgress(stored, Reloaded)
  BY ReloadedKeepsProgress
<1>2. c \in Session /\ SameProgress(Reloaded, c)
  BY <1>1, ConnectedKeepsProgress
<1>3. Save(e)
  OBVIOUS
<1>4. ToldAlike(e, stored') /\ stored'.phase = e.phase
  BY <1>3, SavedIsTold
<1> HIDE DEF c
<1>5. SameProgress(c, e)
  BY <1>2, EnsureHostAssignedKeepsProgress
<1> HIDE DEF e
<1>6. SameProgress(stored, e)
  BY <1>1, <1>2, <1>5 DEF SameProgress
<1>7. ToldAlike(stored, e) /\ e.phase = stored.phase
  BY <1>6, SameProgressAlike DEF SameProgress
<1>8. ToldAlike(stored, stored') /\ stored'.phase = stored.phase
  BY <1>4, <1>7 DEF ToldAlike
<1>9. QED
  BY <1>8, ToldSameIsStutter

(* A seat changes neither the game nor its phase.                          *)
LEMMA AddPlayerTells ==
  ASSUME NEW s \in Session, NEW p \in Player, NEW b \in BOOLEAN
  PROVE  LET t == AddPlayer(s, p, b) IN
         /\ t.players = s.players \cup {p} /\ t.phase = s.phase
         /\ t.caring = s.caring /\ OwnNotes(t) = OwnNotes(s) /\ t.game = s.game
         /\ t.ballot = s.ballot /\ t.eligible = s.eligible /\ t.votes = s.votes
<1> DEFINE t == AddPlayer(s, p, b)
<1>1. /\ t.players = s.players \cup {p} /\ t.phase = s.phase
      /\ t.caring = s.caring /\ t.game = s.game
      /\ t.ballot = s.ballot /\ t.eligible = s.eligible /\ t.votes = s.votes
      /\ t.dragons = s.dragons /\ t.tags = s.tags
  BY DEF AddPlayer, EnsureHostAssigned, Session
<1> HIDE DEF t
<1>2. OwnNotes(t) = OwnNotes(s)
  BY <1>1 DEF OwnNotes
<1>3. QED
  BY <1>1, <1>2 DEF t

LEMMA JoinIsSeat ==
  ASSUME TypeOK, TypeOK', NEW p \in Player, NEW b \in BOOLEAN, Join(p, b)
  PROVE  Game!Seat(p)
<1> DEFINE t == AddPlayer(Reloaded, p, b)
<1>1. Reloaded \in Session /\ SameProgress(stored, Reloaded)
  BY ReloadedKeepsProgress
<1>2. ToldAlike(stored, Reloaded) /\ Reloaded.phase = stored.phase
  BY <1>1, SameProgressAlike DEF SameProgress
<1>3. p \notin Reloaded.players /\ Reloaded.phase = "Lobby" /\ Save(t)
  BY DEF Join, AccountSeated
<1>4. /\ t.players = Reloaded.players \cup {p} /\ t.phase = Reloaded.phase
      /\ t.caring = Reloaded.caring /\ OwnNotes(t) = OwnNotes(Reloaded)
      /\ t.game = Reloaded.game /\ t.ballot = Reloaded.ballot
      /\ t.eligible = Reloaded.eligible /\ t.votes = Reloaded.votes
  BY <1>1, AddPlayerTells
<1> HIDE DEF t
<1>5. ToldAlike(t, stored') /\ stored'.phase = t.phase
  BY <1>3, SavedIsTold
<1>6. QED
  BY <1>2, <1>3, <1>4, <1>5 DEF ToldAlike, Game!Seat, Game!SameVote

LEMMA PresenceIsGame ==
  ASSUME TypeOK, TypeOK', PresenceStep
  PROVE  (\E p \in Player : Game!Seat(p)) \/ UNCHANGED Game!game_vars
<1>1. PICK p \in Player :
        \/ \E b \in BOOLEAN : Join(p, b)
        \/ Rejoin(p) \/ Attach(p) \/ Release(p) \/ Disconnect(p)
        \/ AbandonDisconnect(p) \/ ExpireRow(p)
  BY DEF PresenceStep
<1>2. /\ Reloaded.connected \cup {p} \in SUBSET Player
      /\ Reloaded.connected \ {p} \in SUBSET Player
  BY ReloadedKeepsProgress DEF Session
<1>3. ASSUME NEW C \in SUBSET Player,
             Save(EnsureHostAssigned([Reloaded EXCEPT !.connected = C], TRUE))
      PROVE  UNCHANGED Game!game_vars
  <2>1. TRUE \in BOOLEAN
    OBVIOUS
  <2>2. QED
    BY <1>3, <2>1, ReloadedSavedTellsNothing
<1>4. CASE UNCHANGED stored
  BY <1>4, ToldSameIsStutter DEF ToldAlike, OwnNotes
<1>5. CASE \E b \in BOOLEAN : Join(p, b)
  BY <1>5, JoinIsSeat
<1>6. CASE Rejoin(p)
  <2>1. Save(EnsureHostAssigned([Reloaded EXCEPT !.connected = Reloaded.connected \cup {p}], TRUE))
    BY <1>6 DEF Rejoin
  <2>2. QED
    BY <1>2, <1>3, <2>1
<1>7. CASE Attach(p)
  <2>1. \/ Save(EnsureHostAssigned(
                  [Reloaded EXCEPT !.connected = Reloaded.connected \cup {p}], TRUE))
        \/ UNCHANGED stored
    BY <1>7 DEF Attach, Refresh
  <2>2. QED
    BY <1>2, <1>3, <1>4, <2>1
<1>8. CASE Disconnect(p)
  <2>1. \/ Save(EnsureHostAssigned(
                  [Reloaded EXCEPT !.connected = Reloaded.connected \ {p}], TRUE))
        \/ UNCHANGED stored
    BY <1>8 DEF Disconnect, Refresh
  <2>2. QED
    BY <1>2, <1>3, <1>4, <2>1
<1>9. CASE Release(p) \/ AbandonDisconnect(p) \/ ExpireRow(p)
  BY <1>4, <1>9 DEF Release, AbandonDisconnect, ExpireRow
<1>10. QED
  BY <1>1, <1>5, <1>6, <1>7, <1>8, <1>9

-----------------------------------------------------------------------------
(* What the commands tell, each from a copy of what was told before.       *)

LEMMA BeginTells ==
  ASSUME NEW s \in Session, ToldAlike(stored, s), ToldAlike(BeginPhase1(s), stored'),
         stored'.phase = BeginPhase1(s).phase,
         s.phase = stored.phase, s.phase = "Lobby", s.players # {}
  PROVE  Game!Begin
<1> DEFINE t   == BeginPhase1(s)
           own == [p \in Player |-> IF p \in s.players THEN p ELSE NoOne]
<1>1. /\ t.phase = "Phase1" /\ t.players = s.players /\ t.caring = own
      /\ t.dragons = s.players /\ t.tags = [p \in Player |-> "none"] /\ t.game = s.game + 1
      /\ t.ballot = "none" /\ t.eligible = {} /\ t.votes = NoPlayers
  BY DEF BeginPhase1, EnterPhase, Session
<1>2. s.players \in SUBSET Player
  BY DEF Session
<1>3. own = [p \in Player |-> IF p \in stored.players THEN p ELSE NoOne]
  BY DEF ToldAlike
<1> HIDE DEF own
<1>4. ToldAlike(t, stored') /\ stored'.phase = t.phase
  OBVIOUS
<1> HIDE DEF t
<1>5. OwnNotes(t) = {}
  BY <1>1, <1>2 DEF OwnNotes
<1>6. /\ stored'.phase = "Phase1" /\ stored'.players = stored.players /\ stored'.caring = own
      /\ OwnNotes(stored') = {} /\ stored'.game = stored.game + 1
      /\ stored'.ballot = "none" /\ stored'.eligible = {} /\ stored'.votes = NoPlayers
  BY <1>1, <1>4, <1>5 DEF ToldAlike
<1>7. stored.phase = "Lobby" /\ stored.players # {}
  BY DEF ToldAlike
<1>8. QED
  BY <1>3, <1>6, <1>7 DEF Game!Begin, Game!NoVote, Game!Nobody, NoPlayers

(* A change of phase and of nothing else.                                  *)
LEMMA EnterPhaseTells ==
  ASSUME NEW s \in Session, NEW ph
  PROVE  ToldAlike(s, EnterPhase(s, ph)) /\ EnterPhase(s, ph).phase = ph
<1> DEFINE t == EnterPhase(s, ph)
<1>1. /\ t.phase = ph /\ t.players = s.players /\ t.dragons = s.dragons /\ t.tags = s.tags
      /\ t.caring = s.caring /\ t.ballot = s.ballot /\ t.eligible = s.eligible
      /\ t.votes = s.votes /\ t.game = s.game
  BY DEF EnterPhase, Session
<1> HIDE DEF t
<1>2. QED
  BY <1>1 DEF ToldAlike, OwnNotes, t

LEMMA SavedPhaseIsTold ==
  ASSUME TypeOK', DurableProgress, session \in Session, NEW ph, Save(EnterPhase(session, ph))
  PROVE  ToldAlike(stored, stored') /\ stored'.phase = ph
<1> DEFINE t == EnterPhase(session, ph)
<1>1. ToldAlike(session, t) /\ t.phase = ph
  BY EnterPhaseTells
<1>2. Save(t)
  OBVIOUS
<1> HIDE DEF t
<1>3. ToldAlike(t, stored') /\ stored'.phase = t.phase
  BY <1>2, SavedIsTold
<1>4. QED
  BY <1>1, <1>3, CachedIsTold DEF ToldAlike

LEMMA NotesTell ==
  ASSUME IInv, TypeOK', DurableProgress, NEW p \in Player, SubmitTags(p)
  PROVE  Game!WriteNotes(p)
<1> DEFINE d    == session.caring[p]
           tags == [session.tags EXCEPT ![d] = "own"]
           t    == [session EXCEPT !.tags = tags]
<1>1. session \in Session /\ session.dragons \in SUBSET Player
  BY DEF IInv, TypeOK, Session
<1>2. /\ p \in session.players /\ session.phase = "Handover" /\ d \in session.dragons
      /\ Save(t)
  BY DEF SubmitTags, MaySubmitTags, IsPlayer
<1>3. \A e \in session.dragons : tags[e] = "own" <=> e = d \/ session.tags[e] = "own"
  BY <1>1, <1>2 DEF Session
<1>4. stored.phase = "Handover" /\ ToldAlike(stored, session)
  BY <1>2, CachedIsTold
<1> HIDE DEF tags
<1>5. /\ t.phase = session.phase /\ t.players = session.players /\ t.caring = session.caring
      /\ t.dragons = session.dragons /\ t.tags = tags /\ t.game = session.game
      /\ t.ballot = session.ballot /\ t.eligible = session.eligible /\ t.votes = session.votes
  BY <1>1 DEF Session
<1> HIDE DEF t
<1>6. OwnNotes(t) = OwnNotes(session) \cup {d}
  <2> HIDE DEF d
  <2>1. QED
    BY <1>2, <1>3, <1>5 DEF OwnNotes
<1>7. ToldAlike(t, stored') /\ stored'.phase = t.phase
  BY <1>2, SavedIsTold
<1>8. OwnNotes(stored') = OwnNotes(stored) \cup {stored.caring[p]}
  BY <1>4, <1>6, <1>7 DEF ToldAlike
<1>9. QED
  BY <1>2, <1>4, <1>5, <1>7, <1>8 DEF ToldAlike, Game!WriteNotes, Game!SameVote

(* The rotation is an exchange: everybody's dragon goes to somebody else.  *)
LEMMA RotationTells ==
  ASSUME IInv, TypeOK', DurableProgress, session.phase = "Handover", NEW b \in BOOLEAN,
         Save(Rotated(AutoFilled(session, b)))
  PROVE  Game!Exchange
<1> DEFINE f == AutoFilled(session, b)
           t == Rotated(f)
           P == session.players
<1>1. session \in Session /\ Sound(session) /\ P \in SUBSET Player
  BY DEF IInv, TypeOK, Session
<1>2. f \in Session /\ SameProgress(session, f)
  BY <1>1, AutoFilledKeepsProgress, AutoFilledSound DEF Sound
<1>3. ToldAlike(session, f) /\ session.dragons = P
  BY <1>1, <1>2, SameProgressAlike DEF SameProgress, Sound, Paired
<1>4. Save(t)
  OBVIOUS
<1> HIDE DEF f
<1>5. /\ t.phase = "Phase2" /\ t.players = f.players /\ t.dragons = f.dragons
      /\ t.tags = f.tags /\ t.game = f.game
      /\ t.ballot = f.ballot /\ t.eligible = f.eligible /\ t.votes = f.votes
  BY <1>2 DEF Rotated, EnterPhase, Session
<1>6. t.caring = [p \in Player |->
                    IF p \in f.players THEN Previous(f.dragons, p) ELSE f.caring[p]]
  BY <1>2 DEF Rotated, EnterPhase, Session
<1>7. f.players = P /\ f.dragons = P
  BY <1>3 DEF ToldAlike
<1>8. \A p \in P : t.caring[p] = Previous(P, p)
  BY <1>1, <1>6, <1>7
<1> HIDE DEF t
<1>9. OwnNotes(t) = OwnNotes(f)
  BY <1>5 DEF OwnNotes
<1>10. ToldAlike(t, stored') /\ stored'.phase = t.phase
  BY <1>4, SavedIsTold
<1>11. ToldAlike(stored, session) /\ stored.phase = "Handover"
  BY CachedIsTold
<1>12. /\ stored'.phase = "Phase2" /\ stored'.players = stored.players
       /\ OwnNotes(stored') = OwnNotes(stored) /\ stored'.game = stored.game
       /\ stored'.ballot = stored.ballot /\ stored'.eligible = stored.eligible
       /\ stored'.votes = stored.votes
  BY <1>3, <1>5, <1>9, <1>10, <1>11 DEF ToldAlike
<1>13. stored.players = P /\ \A p \in P : stored'.caring[p] = Previous(P, p)
  BY <1>8, <1>10, <1>11 DEF ToldAlike
<1>14. {stored'.caring[p] : p \in P} = P
  <2>1. \A p \in P : Previous(P, p) \in P
    BY <1>1, PreviousIsMember
  <2>2. \A d \in P : \E p \in P : Previous(P, p) = d
    BY <1>1, PreviousIsOnto
  <2> HIDE DEF P
  <2>3. QED
    BY <2>1, <2>2, <1>13
<1>15. ASSUME NEW p \in P, Cardinality(P) > 1 PROVE stored'.caring[p] # p
  <2>1. SUFFICES ASSUME Previous(P, p) = p PROVE FALSE
    BY <1>13
  <2>2. P = {p}
    BY <1>1, <2>1, RotationMovesEveryDragon
  <2>3. Cardinality({p}) = 1
    BY FS_Singleton
  <2>4. Cardinality(P) = 1
    BY <2>2, <2>3
  <2> HIDE DEF P
  <2>5. QED
    BY <1>15, <2>4
<1> HIDE DEF P
<1>16. QED
  BY <1>11, <1>12, <1>13, <1>14, <1>15, GameCounts DEF Game!Exchange, Game!SameVote

(* Everybody holds a dragon, so all who play may vote, if they are several. *)
LEMMA VotingTells ==
  ASSUME IInv, TypeOK', DurableProgress, session.phase \in {"Phase2", "Judge"},
         Save(EnterVoting(session))
  PROVE  Game!OpenVote
<1> DEFINE P        == session.players
           holders  == {p \in P : session.caring[p] # NoOne}
           eligible == IF Cardinality(holders) > 1 THEN holders ELSE {}
           ballot   == IF eligible = {} THEN "revealed" ELSE "open"
           t        == EnterVoting(session)
<1>1. session \in Session /\ Sound(session) /\ P \in SUBSET Player
  BY DEF IInv, TypeOK, Session
<1>2. \A p \in P : session.caring[p] \in P
  BY <1>1 DEF Sound, Paired
<1>3. holders = P
  BY <1>1, <1>2, NoOneAssumption
<1>4. Save(t)
  OBVIOUS
<1>5. /\ t.phase = "Voting" /\ t.players = P /\ t.dragons = session.dragons
      /\ t.tags = session.tags /\ t.caring = session.caring /\ t.game = session.game
      /\ t.eligible = eligible /\ t.ballot = ballot /\ t.votes = NoPlayers
  BY <1>1 DEF EnterVoting, EnterPhase, Session
<1>6. eligible = IF Cardinality(P) > 1 THEN P ELSE {}
  BY <1>3
<1> HIDE DEF t, eligible
<1>7. OwnNotes(t) = OwnNotes(session)
  BY <1>5 DEF OwnNotes
<1>8. ToldAlike(t, stored') /\ stored'.phase = t.phase
  BY <1>4, SavedIsTold
<1>9. ToldAlike(stored, session) /\ stored.phase \in {"Phase2", "Judge"}
  BY CachedIsTold
<1>10. /\ stored'.phase = "Voting" /\ stored'.players = stored.players
       /\ stored'.caring = stored.caring /\ OwnNotes(stored') = OwnNotes(stored)
       /\ stored'.game = stored.game
       /\ stored'.eligible = eligible /\ stored'.ballot = ballot /\ stored'.votes = NoPlayers
  BY <1>5, <1>7, <1>8, <1>9 DEF ToldAlike
<1>11. stored'.eligible = IF Cardinality(stored.players) > 1 THEN stored.players ELSE {}
  BY <1>6, <1>9, <1>10 DEF ToldAlike
<1>12. stored'.ballot = IF stored'.eligible = {} THEN "revealed" ELSE "open"
  BY <1>10
<1>13. QED
  BY <1>9, <1>10, <1>11, <1>12, GameCounts
  DEF Game!OpenVote, Game!Same, Game!Nobody, NoPlayers

LEMMA VoteTells ==
  ASSUME IInv, TypeOK', DurableProgress, NEW p \in Player, NEW d \in Player, SubmitVote(p, d)
  PROVE  Game!Vote(p, d)
<1> DEFINE votes == [session.votes EXCEPT ![p] = d]
           t     == [session EXCEPT !.votes = votes]
<1>1. session \in Session /\ Sound(session)
  BY DEF IInv, TypeOK
<1>2. /\ session.phase = "Voting" /\ session.ballot = "open" /\ p \in session.eligible
      /\ d \in session.dragons /\ d # p /\ Save(t)
  BY DEF SubmitVote, MaySubmitVote
<1>3. session.dragons = session.players
  BY <1>1, <1>2 DEF Sound, Paired
<1>4. stored.phase = "Voting" /\ ToldAlike(stored, session)
  BY <1>2, CachedIsTold
<1>5. votes = [stored.votes EXCEPT ![p] = d]
  BY <1>4 DEF ToldAlike
<1> HIDE DEF votes
<1>6. /\ t.phase = session.phase /\ t.players = session.players /\ t.caring = session.caring
      /\ t.dragons = session.dragons /\ t.tags = session.tags /\ t.game = session.game
      /\ t.ballot = session.ballot /\ t.eligible = session.eligible /\ t.votes = votes
  BY <1>1 DEF Session
<1> HIDE DEF t
<1>7. OwnNotes(t) = OwnNotes(session)
  BY <1>6 DEF OwnNotes
<1>8. ToldAlike(t, stored') /\ stored'.phase = t.phase
  BY <1>2, SavedIsTold
<1>9. stored.ballot = "open" /\ p \in stored.eligible /\ d \in stored.players \ {p}
  BY <1>2, <1>3, <1>4 DEF ToldAlike
<1>10. stored'.votes = [stored.votes EXCEPT ![p] = d]
  BY <1>5, <1>6, <1>8 DEF ToldAlike
<1>11. QED
  BY <1>4, <1>6, <1>7, <1>8, <1>9, <1>10, <1>2 DEF ToldAlike, Game!Vote, Game!Same

(* Results are shown once a player has voted, or none can.                 *)
LEMMA RevealTells ==
  ASSUME IInv, TypeOK', DurableProgress, NEW p \in Player, RevealVotingResults(p)
  PROVE  Game!Reveal
<1> DEFINE t == [session EXCEPT !.ballot = "revealed"]
<1>1. session \in Session /\ Sound(session)
  BY DEF IInv, TypeOK
<1>2. /\ session.phase = "Voting" /\ Save(t)
      /\ session.eligible = {} \/ \E q \in Player : session.votes[q] # NoOne
  BY DEF RevealVotingResults, MayReveal
<1>3. session.eligible = {} \/ \E q \in session.eligible : session.votes[q] # NoOne
  BY <1>1, <1>2 DEF Sound, LegalVotes
<1>4. stored.phase = "Voting" /\ ToldAlike(stored, session)
  BY <1>2, CachedIsTold
<1>5. /\ t.phase = session.phase /\ t.players = session.players /\ t.caring = session.caring
      /\ t.dragons = session.dragons /\ t.tags = session.tags /\ t.game = session.game
      /\ t.ballot = "revealed" /\ t.eligible = session.eligible /\ t.votes = session.votes
  BY <1>1 DEF Session
<1> HIDE DEF t
<1>6. OwnNotes(t) = OwnNotes(session)
  BY <1>5 DEF OwnNotes
<1>7. ToldAlike(t, stored') /\ stored'.phase = t.phase
  BY <1>2, SavedIsTold
<1>8. stored.eligible = {} \/ \E q \in stored.eligible : stored.votes[q] # NoOne
  BY <1>3, <1>4 DEF ToldAlike
<1>9. QED
  BY <1>2, <1>4, <1>5, <1>6, <1>7, <1>8 DEF ToldAlike, Game!Reveal, Game!Same

LEMMA EndTells ==
  ASSUME IInv, TypeOK', DurableProgress, NEW p \in Player, EndSession(p)
  PROVE  Game!Finish
<1>1. session \in Session /\ Sound(session)
  BY DEF IInv, TypeOK
<1>2. session.phase = "Voting" /\ session.ballot # "open" /\ Save(EnterPhase(session, "End"))
  BY DEF EndSession, MayEndSession
<1>3. session.ballot = "revealed"
  <2>1. session.ballot \in {"none", "open", "revealed"} /\ session.ballot # "none"
    BY <1>1, <1>2 DEF Sound, CountedBallot, Session
  <2>2. QED
    BY <1>2, <2>1
<1>4. stored.phase = "Voting" /\ ToldAlike(stored, session)
  BY <1>2, CachedIsTold
<1>5. ToldAlike(stored, stored') /\ stored'.phase = "End"
  BY <1>1, <1>2, SavedPhaseIsTold
<1>6. QED
  BY <1>3, <1>4, <1>5 DEF ToldAlike, Game!Finish, Game!Same, Game!SameVote

LEMMA ResetTells ==
  ASSUME IInv, HInv, TypeOK', DurableProgress, NEW p \in Player, ResetGame(p)
  PROVE  Game!Reset(p)
<1> DEFINE t == ResetToLobby(session, p)
<1>1. session \in Session /\ NoOne # p
  BY NoOneAssumption DEF IInv, TypeOK
<1>2. p = session.host /\ Save(t)
  BY DEF ResetGame, IsHost
<1>3. p \in session.players
  BY <1>1, <1>2 DEF HInv, Hosted, FitForHost
<1>4. ToldAlike(stored, session)
  BY CachedIsTold
<1>5. /\ t.phase = "Lobby" /\ t.players = {p} /\ t.caring = NoPlayers
      /\ t.dragons = {} /\ t.game = session.game
      /\ t.ballot = "none" /\ t.eligible = {} /\ t.votes = NoPlayers
  BY <1>1 DEF Session, ResetToLobby
<1> HIDE DEF t
<1>6. OwnNotes(t) = {}
  BY <1>5 DEF OwnNotes
<1>7. ToldAlike(t, stored') /\ stored'.phase = t.phase
  BY <1>2, SavedIsTold
<1>8. QED
  BY <1>3, <1>4, <1>5, <1>6, <1>7
  DEF ToldAlike, Game!Reset, Game!NoVote, Game!Nobody, NoPlayers

-----------------------------------------------------------------------------
(* Every step of a workshop is a step of its game, or nothing to it.       *)

LEMMA CommandIsGame ==
  ASSUME IInv, HInv, TypeOK', DurableProgress, CommandStep
  PROVE  Game!Next \/ UNCHANGED Game!game_vars
<1>1. PICK p \in Player :
        \/ StartPhase1(p) \/ SelectCharacter(p) \/ StartHandover(p) \/ SubmitTags(p)
        \/ StartPhase2(p) \/ RejectPhase2(p) \/ OpenVoting(p)
        \/ \E d \in Player : SubmitVote(p, d)
        \/ RevealVotingResults(p) \/ EndSession(p) \/ ResetGame(p) \/ RequestJudge(p)
  BY DEF CommandStep
<1>2. session \in Session
  BY DEF IInv, TypeOK
<1>3. CASE StartPhase1(p)
  <2> DEFINE t == BeginPhase1(session)
  <2>1. session.host = p /\ session.phase = "Lobby" /\ Save(t)
    BY <1>3 DEF StartPhase1, MayStartPhase1, IsHost
  <2>2. session.players # {}
    BY <2>1, NoOneAssumption DEF HInv, Hosted, FitForHost
  <2>3. ToldAlike(t, stored') /\ stored'.phase = t.phase
    <3> HIDE DEF t
    <3>1. QED
      BY <2>1, SavedIsTold
  <2>4. ToldAlike(stored, session) /\ session.phase = stored.phase
    BY <2>1, CachedIsTold
  <2>5. Game!Begin
    BY <1>2, <2>1, <2>2, <2>3, <2>4, BeginTells
  <2>6. QED
    BY <2>5 DEF Game!Next
<1>4. CASE SelectCharacter(p)
  <2> DEFINE ready == session.ready \cup {p}
             t     == [session EXCEPT !.ready = ready]
  <2>1. Save(t)
    BY <1>4 DEF SelectCharacter
  <2>2. /\ t.phase = session.phase /\ t.players = session.players
        /\ t.dragons = session.dragons /\ t.tags = session.tags /\ t.caring = session.caring
        /\ t.game = session.game /\ t.ballot = session.ballot
        /\ t.eligible = session.eligible /\ t.votes = session.votes
    BY <1>2 DEF Session
  <2> HIDE DEF t
  <2>3. ToldAlike(session, t)
    BY <2>2 DEF ToldAlike, OwnNotes
  <2>4. ToldAlike(t, stored') /\ stored'.phase = t.phase
    BY <2>1, SavedIsTold
  <2>5. /\ ToldAlike(stored, stored')
        /\ \/ stored'.phase = stored.phase
           \/ stored'.phase = "Judge" /\ stored.phase = "Phase2"
    BY <2>2, <2>3, <2>4, CachedIsTold DEF ToldAlike
  <2>6. QED
    BY <2>5, ToldSameIsStutter, JudgeIsTold DEF Game!Next
<1>5. CASE StartHandover(p)
  <2>1. session.phase = "Phase1" /\ Save(EnterPhase(session, "Handover"))
    BY <1>5 DEF StartHandover, MayStartHandover
  <2>2. ToldAlike(stored, stored') /\ stored'.phase = "Handover" /\ stored.phase = "Phase1"
    BY <1>2, <2>1, SavedPhaseIsTold, CachedIsTold
  <2>3. Game!CallHandover
    BY <2>2 DEF ToldAlike, Game!CallHandover, Game!Same, Game!SameVote
  <2>4. QED
    BY <2>3 DEF Game!Next
<1>6. CASE SubmitTags(p)
  BY <1>6, NotesTell DEF Game!Next
<1>7. CASE StartPhase2(p)
  <2>1. session.phase = "Handover" /\ Save(Rotated(AutoFilled(session, timer = "expired")))
    BY <1>7 DEF StartPhase2, MayStartPhase2
  <2>2. (timer = "expired") \in BOOLEAN
    OBVIOUS
  <2>3. Game!Exchange
    BY <2>1, <2>2, RotationTells
  <2>4. QED
    BY <2>3 DEF Game!Next
<1>8. CASE RejectPhase2(p) \/ RequestJudge(p)
  BY <1>8, ToldSameIsStutter DEF RejectPhase2, RequestJudge, ToldAlike, OwnNotes
<1>9. CASE OpenVoting(p)
  <2>1. session.phase \in {"Phase2", "Judge"} /\ Save(EnterVoting(session))
    BY <1>9 DEF OpenVoting, MayOpenVoting
  <2>2. QED
    BY <2>1, VotingTells DEF Game!Next
<1>10. CASE \E d \in Player : SubmitVote(p, d)
  BY <1>10, VoteTells DEF Game!Next
<1>11. CASE RevealVotingResults(p)
  BY <1>11, RevealTells DEF Game!Next
<1>12. CASE EndSession(p)
  BY <1>12, EndTells DEF Game!Next
<1>13. CASE ResetGame(p)
  BY <1>13, ResetTells DEF Game!Next
<1>14. QED
  BY <1>1, <1>3, <1>4, <1>5, <1>6, <1>7, <1>8, <1>9, <1>10, <1>11, <1>12, <1>13

(* A judgement ends phase 2 if it is still on; early, late or lost it      *)
(* moves nothing else.                                                     *)
LEMMA JudgeStepIsGame ==
  ASSUME TypeOK, TypeOK', JudgeStep
  PROVE  Game!Judge \/ UNCHANGED Game!game_vars
<1>1. PICK j \in JudgeRun :
        JudgeSnapshot(j) \/ JudgeApply(j) \/ JudgeFail(j) \/ JudgeLeaseLost(j)
  BY DEF JudgeStep
<1>2. CASE JudgeApply(j)
  <2> DEFINE task == judges[j]
             t    == Judged(task)
  <2>1. task \in JudgeTask /\ Save(t)
    BY <1>2 DEF JudgeApply, TypeOK
  <2>2. /\ Progress(t) = Progress(stored)
        /\ \/ t.phase = stored.phase
           \/ t.phase = "Judge" /\ stored.phase = "Phase2"
    BY <2>1, JudgedKeepsProgress
  <2> HIDE DEF t
  <2>3. ToldAlike(t, stored') /\ stored'.phase = t.phase
    BY <2>1, SavedIsTold
  <2>4. ToldAlike(stored, t)
    BY <2>2, SameProgressAlike
  <2>5. ToldAlike(stored, stored')
    BY <2>3, <2>4 DEF ToldAlike
  <2>6. QED
    BY <2>2, <2>3, <2>5, ToldSameIsStutter, JudgeIsTold
<1>3. CASE JudgeSnapshot(j) \/ JudgeFail(j) \/ JudgeLeaseLost(j)
  BY <1>3, ToldSameIsStutter
  DEF JudgeSnapshot, JudgeFail, JudgeLeaseLost, Refresh, ToldAlike, OwnNotes
<1>4. QED
  BY <1>1, <1>2, <1>3

(* A deadline does what the host would have done.                          *)
LEMMA TickerIsGame ==
  ASSUME IInv, TypeOK', DurableProgress, TickerStep
  PROVE  Game!Next \/ UNCHANGED Game!game_vars
<1>1. session \in Session
  BY DEF IInv, TypeOK
<1>2. CASE TimePasses \/ EmitPhaseWarning
  BY <1>2, ToldSameIsStutter DEF TimePasses, EmitPhaseWarning, ToldAlike, OwnNotes
<1>3. CASE AdvanceOverduePhase
  <2>1. CASE session.phase = "Phase1" /\ Save(EnterPhase(session, "Handover"))
    <3>1. ToldAlike(stored, stored') /\ stored'.phase = "Handover" /\ stored.phase = "Phase1"
      BY <1>1, <2>1, SavedPhaseIsTold, CachedIsTold
    <3>2. Game!CallHandover
      BY <3>1 DEF ToldAlike, Game!CallHandover, Game!Same, Game!SameVote
    <3>3. QED
      BY <3>2 DEF Game!Next
  <2>2. CASE session.phase = "Handover" /\ Save(Rotated(AutoFilled(session, TRUE)))
    <3>1. TRUE \in BOOLEAN
      OBVIOUS
    <3>2. Game!Exchange
      BY <2>2, <3>1, RotationTells
    <3>3. QED
      BY <3>2 DEF Game!Next
  <2>3. CASE session.phase = "Phase2" /\ Save(EnterVoting(session))
    BY <2>3, VotingTells DEF Game!Next
  <2>4. QED
    BY <1>3, <2>1, <2>2, <2>3 DEF AdvanceOverduePhase
<1>4. QED
  BY <1>2, <1>3 DEF TickerStep

LEMMA NextIsGame ==
  ASSUME IInv, IInv', HInv, DurableProgress, [Next]_vars
  PROVE  [Game!Next]_Game!game_vars
<1>1. TypeOK /\ TypeOK'
  BY DEF IInv
<1>2. CASE PresenceStep
  BY <1>1, <1>2, PresenceIsGame DEF Game!Next
<1>3. CASE CommandStep
  BY <1>1, <1>3, CommandIsGame
<1>4. CASE JudgeStep
  BY <1>1, <1>4, JudgeStepIsGame DEF Game!Next
<1>5. CASE TickerStep
  BY <1>1, <1>5, TickerIsGame
<1>6. CASE Load \/ Restart \/ UNCHANGED vars
  BY <1>6, ToldSameIsStutter DEF Load, Refresh, Restart, vars, ToldAlike, OwnNotes
<1>7. QED
  BY <1>2, <1>3, <1>4, <1>5, <1>6 DEF Next

LEMMA InitIsGame == Init => Game!Init
<1> DEFINE empty == [NewSession EXCEPT !.reserved = FALSE]
<1>1. SUFFICES ASSUME Init PROVE Game!Init
  OBVIOUS
<1>2. session \in Session /\ stored \in Session /\ stored = Sanitized(session)
  BY <1>1, InitIsSound DEF Init, IInv, TypeOK
<1>3. ToldAlike(session, stored) /\ stored.phase = session.phase
  <2>1. SameProgress(session, stored)
    BY <1>2, ConnectedKeepsProgress DEF Sanitized
  <2>2. QED
    BY <2>1, SameProgressAlike DEF SameProgress
<1>4. /\ empty.phase = "Lobby" /\ empty.game = 0 /\ empty.caring = NoPlayers
      /\ empty.dragons = {} /\ empty.ballot = "none" /\ empty.eligible = {}
      /\ empty.votes = NoPlayers /\ empty \in Session
  BY DEF NewSession, Session, Phase, NoPlayers, Zeroes, MaybeOne, Notes
<1>5. \/ session = NewSession
      \/ \E p \in OwnersAmong(Player), b \in BOOLEAN : session = AddPlayer(empty, p, b)
  BY <1>1 DEF Init
<1>6. OwnNotes(empty) = {}
  <2> HIDE DEF empty
  <2>1. QED
    BY <1>4 DEF OwnNotes
<1> HIDE DEF empty
<1>7. /\ session.phase = "Lobby" /\ session.game = 0 /\ session.caring = NoPlayers
      /\ session.ballot = "none" /\ session.eligible = {} /\ session.votes = NoPlayers
      /\ OwnNotes(session) = {}
  <2>1. CASE session = NewSession
    BY <2>1 DEF NewSession, OwnNotes
  <2>2. ASSUME NEW p \in Player, NEW b \in BOOLEAN, session = AddPlayer(empty, p, b)
        PROVE  /\ session.phase = "Lobby" /\ session.game = 0 /\ session.caring = NoPlayers
               /\ session.ballot = "none" /\ session.eligible = {} /\ session.votes = NoPlayers
               /\ OwnNotes(session) = {}
    BY <1>4, <1>6, <2>2, AddPlayerTells
  <2>3. QED
    BY <1>5, <2>1, <2>2 DEF OwnersAmong
<1>8. stored.players \in SUBSET Player
  BY <1>2 DEF Session
<1>9. QED
  BY <1>3, <1>7, <1>8 DEF ToldAlike, Game!Init, Game!Nobody, NoPlayers

(* Whatever the network, the server, its deadlines and its judges do, and  *)
(* in whatever order: what is stored of a workshop is a game as promised - *)
(* no phase skipped, repeated or gone back to, nobody seated in a running  *)
(* game, no notes or votes taken back, every dragon given to another.      *)
THEOREM WorkshopIsAGame == Spec => ImplementsGameFlow
<1>1. IInv /\ IInv' /\ HInv /\ DurableProgress /\ [Next]_vars => [Game!Next]_Game!game_vars
  BY NextIsGame
<1>2. Spec => []HInv
  <2>1. IInv /\ IInv' /\ HInv /\ [Next]_vars => HInv'
    BY HostKept
  <2>2. QED
    BY <2>1, InitIsHosted, InvariantHolds, PTL DEF Spec
<1>3. QED
  BY <1>1, <1>2, InitIsGame, InvariantHolds, ProgressIsDurable, PTL
  DEF Spec, ImplementsGameFlow, Game!Spec

-----------------------------------------------------------------------------
(* What the client offers is what the server accepts.                      *)

(* A ballot is there from the opening of the vote on, for all who play if  *)
(* they are several, and never open for nobody.                            *)
BallotDue(s) ==
  /\ s.phase \notin {"Voting", "End"} => s.ballot = "none"
  /\ s.phase = "Voting" => s.eligible = IF Cardinality(s.players) > 1 THEN s.players ELSE {}
  /\ s.ballot = "open" => s.eligible # {}

(* It holds of the game that is promised, and so of what is stored.        *)
LEMMA GameKeepsBallotDue ==
  ASSUME BallotDue(stored), [Game!Next]_Game!game_vars
  PROVE  BallotDue(stored')
<1>1. CASE UNCHANGED Game!game_vars
  BY <1>1 DEF Game!game_vars, BallotDue
<1>2. CASE Game!Begin \/ \E p \in Player : Game!Reset(p)
  BY <1>2 DEF Game!Begin, Game!Reset, Game!NoVote, BallotDue
<1>3. CASE Game!CallHandover \/ Game!Exchange \/ Game!Judge \/ Game!Finish
  BY <1>3 DEF Game!CallHandover, Game!Exchange, Game!Judge, Game!Finish, Game!Same,
              Game!SameVote, BallotDue
<1>4. CASE \E p \in Player : Game!Seat(p) \/ Game!WriteNotes(p)
  BY <1>4 DEF Game!Seat, Game!WriteNotes, Game!SameVote, BallotDue
<1>5. CASE Game!OpenVote
  BY <1>5, GameCounts DEF Game!OpenVote, Game!Same, BallotDue
<1>6. CASE Game!Reveal \/ \E p, d \in Player : Game!Vote(p, d)
  BY <1>6 DEF Game!Reveal, Game!Vote, Game!Same, BallotDue
<1>7. QED
  BY <1>1, <1>2, <1>3, <1>4, <1>5, <1>6 DEF Game!Next

LEMMA InitBallotDue == Game!Init => BallotDue(stored)
BY DEF Game!Init, BallotDue

LEMMA CachedBallotDue ==
  ASSUME DurableProgress, BallotDue(stored)
  PROVE  BallotDue(session)
BY CachedIsTold DEF ToldAlike, BallotDue

-----------------------------------------------------------------------------
(* The state as a client sees it.                                          *)
LEMMA ToldIs ==
  ASSUME NEW s, NEW p
  PROVE  LET t == Told(s, p) IN
         /\ t.phase = s.phase /\ t.me = p /\ t.isHost = (s.host = p)
         /\ DOMAIN t.creator = s.dragons
         /\ \A d \in s.dragons : t.creator[d] = CreatorShown(s, p, d)
         /\ t.vote.exists = (s.ballot # "none") /\ t.vote.revealed = (s.ballot = "revealed")
         /\ t.vote.eligible = Cardinality(s.eligible)
         /\ t.vote.submitted = Cardinality({q \in Player : s.votes[q] # NoOne})
         /\ t.vote.mine = s.votes[p]
BY DEF Told, Ballot

LEMMA HostOffers ==
  ASSUME NEW t, NEW names, NEW c \in ForHost(t, names)
  PROVE  t.isHost /\ c.name \in names
BY DEF ForHost, Command

(* Before the vote, the buttons of the host and the notes of the handover. *)
LEMMA PlayOffersAccepted ==
  ASSUME IInv, cached, NEW p \in session.players, NEW c \in Buttons(Told(session, p)),
         session.phase \in {"Lobby", "Phase1", "Handover", "Phase2"}
  PROVE  LeftToTheServer(c) \/ Accepts(p, c)
<1> DEFINE t == Told(session, p)
<1>1. session \in Session /\ Sound(session)
  BY DEF IInv, TypeOK
<1>2. t.phase = session.phase /\ t.isHost = (session.host = p)
  BY DEF Told
<1> HIDE DEF t
<1>3. c \in Buttons(t)
  BY DEF t
<1>4. t.isHost => IsHost(p)
  BY <1>2 DEF IsHost
<1>5. CASE session.phase = "Lobby"
  <2>1. c.name = "StartPhase1" /\ IsHost(p)
    BY <1>2, <1>3, <1>4, <1>5, HostOffers DEF Buttons, LobbyView
  <2>2. session.game \in Nat /\ MaxGames \in Nat
    BY <1>1, BoundAssumption DEF Session
  <2>3. CASE session.players \subseteq session.ready /\ session.game < MaxGames
    BY <1>5, <2>1, <2>3 DEF Accepts, MayStartPhase1
  <2>4. CASE ~(session.players \subseteq session.ready) \/ session.game >= MaxGames
    BY <2>1, <2>4 DEF LeftToTheServer
  <2>5. QED
    BY <2>2, <2>3, <2>4
<1>6. CASE session.phase = "Phase1"
  <2>1. c.name = "StartHandover" /\ IsHost(p)
    BY <1>2, <1>3, <1>4, <1>6, HostOffers DEF Buttons, Phase1View
  <2>2. QED
    BY <1>6, <2>1 DEF Accepts, MayStartHandover
<1>7. CASE session.phase = "Handover"
  <2>1. c = Command("SubmitTags") \/ c \in ForHost(t, {"StartPhase2"})
    BY <1>2, <1>3, <1>7 DEF Buttons, HandoverView
  <2>2. CASE c = Command("SubmitTags")
    <3>1. session.caring[p] \in session.dragons
      BY <1>1, <1>7 DEF Sound, Paired
    <3>2. MaySubmitTags(p)
      BY <1>7, <3>1 DEF MaySubmitTags, IsPlayer
    <3>3. c.name = "SubmitTags"
      BY <2>2 DEF Command
    <3>4. QED
      BY <3>2, <3>3 DEF Accepts
  <2>3. CASE c \in ForHost(t, {"StartPhase2"})
    <3>1. c.name = "StartPhase2" /\ IsHost(p)
      BY <1>4, <2>3, HostOffers
    <3>2. QED
      BY <1>7, <3>1 DEF Accepts, MayStartPhase2, LeftToTheServer
  <2>4. QED
    BY <2>1, <2>2, <2>3
<1>8. CASE session.phase = "Phase2"
  <2>1. c.name \in {"EndGame", "ResetGame"} /\ IsHost(p)
    BY <1>2, <1>3, <1>4, <1>8, HostOffers DEF Buttons, Phase2View
  <2>2. QED
    BY <1>8, <2>1 DEF Accepts, MayOpenVoting
<1>9. QED
  BY <1>5, <1>6, <1>7, <1>8

(* The view of the review, the vote and the end.                           *)
LEMMA EndOffersAccepted ==
  ASSUME IInv, BallotDue(session), cached, NEW p \in session.players,
         NEW c \in Buttons(Told(session, p)), session.phase \in {"Judge", "Voting", "End"}
  PROVE  LeftToTheServer(c) \/ Accepts(p, c)
<1> DEFINE t     == Told(session, p)
           Cast  == {q \in Player : session.votes[q] # NoOne}
<1>1. session \in Session /\ Sound(session) /\ p \in Player
  BY DEF IInv, TypeOK, Session
<1>2. /\ t.phase = session.phase /\ t.me = p /\ t.isHost = (session.host = p)
      /\ DOMAIN t.creator = session.dragons
      /\ \A d \in session.dragons : t.creator[d] = CreatorShown(session, p, d)
      /\ t.vote.exists = (session.ballot # "none")
      /\ t.vote.revealed = (session.ballot = "revealed")
      /\ t.vote.submitted = Cardinality(Cast)
  BY ToldIs
<1> HIDE DEF t, Cast
<1>3. c \in Buttons(t)
  BY DEF t
<1>4. c \in EndView(t) /\ session.phase # "End"
  BY <1>2, <1>3 DEF Buttons, EndView
<1>5. CASE c \in ForHost(t, {"EndSession"}) /\ Revealed(t)
  <2>1. c.name = "EndSession" /\ IsHost(p)
    <3>1. t.isHost /\ c.name \in {"EndSession"}
      BY <1>5, HostOffers
    <3>2. QED
      BY <1>2, <3>1 DEF IsHost
  <2>2. session.ballot = "revealed" /\ session.phase = "Voting"
    BY <1>2, <1>4, <1>5 DEF Revealed, BallotDue
  <2>3. MayEndSession(p)
    BY <2>1, <2>2 DEF MayEndSession
  <2>4. QED
    BY <2>1, <2>3 DEF Accepts
<1>6. CASE c \in {VoteFor(d) : d \in VotingCards(t)} /\ ~Revealed(t)
  <2>1. PICK d \in VotingCards(t) : c = VoteFor(d)
    BY <1>6
  <2>2. c.name = "SubmitVote" /\ c.dragon = d
    BY <2>1 DEF VoteFor
  <2>3. CASE session.phase = "Judge"
    BY <2>2, <2>3 DEF LeftToTheServer
  <2>4. CASE session.phase = "Voting"
    <3>1. session.ballot = "open"
      <4>1. session.ballot \in {"none", "open", "revealed"} /\ session.ballot # "none"
        BY <1>1, <2>4 DEF Sound, CountedBallot, Session
      <4>2. QED
        BY <4>1, <1>2, <1>6 DEF Revealed
    <3>2. p \in session.eligible
      BY <2>4, <3>1 DEF BallotDue
    <3>3. d \in session.dragons /\ d # p
      BY <1>2, <2>1 DEF VotingCards, CreatorShown
    <3>4. MaySubmitVote(p, d)
      BY <2>4, <3>1, <3>2, <3>3 DEF MaySubmitVote
    <3>5. QED
      BY <2>2, <3>4 DEF Accepts
  <2>5. QED
    BY <1>4, <2>3, <2>4
<1>7. CASE c \in ForHost(t, {"RevealVotingResults"}) /\ RevealReady(t)
  <2>1. c.name = "RevealVotingResults" /\ IsHost(p)
    <3>1. t.isHost /\ c.name \in {"RevealVotingResults"}
      BY <1>7, HostOffers
    <3>2. QED
      BY <1>2, <3>1 DEF IsHost
  <2>2. session.ballot # "none" /\ session.phase = "Voting"
    BY <1>2, <1>4, <1>7 DEF RevealReady, BallotDue
  <2>3. Cast # {}
    <3>1. Cardinality(Cast) > 0
      BY <1>2, <1>7 DEF RevealReady
    <3>2. Cardinality({}) = 0
      BY FS_EmptySet
    <3>3. QED
      BY <3>1, <3>2
  <2>4. MayReveal(p)
    BY <2>1, <2>2, <2>3 DEF MayReveal, Cast
  <2>5. QED
    BY <2>1, <2>4 DEF Accepts
<1>8. QED
  BY <1>4, <1>5, <1>6, <1>7 DEF EndView

(* The way on: in the lobby the start; while voting another's dragon to    *)
(* vote for, then the reveal, then the end.                                *)
LEMMA HostIsOffered ==
  ASSUME IInv, BallotDue(session), NEW p \in session.players, session.host = p,
         session.phase \in {"Lobby", "Voting"}
  PROVE  Buttons(Told(session, p)) # {}
<1> DEFINE t    == Told(session, p)
           Cast == {q \in Player : session.votes[q] # NoOne}
<1>1. session \in Session /\ Sound(session) /\ p \in Player
  BY DEF IInv, TypeOK, Session
<1>2. /\ t.phase = session.phase /\ t.me = p /\ t.isHost = TRUE
      /\ DOMAIN t.creator = session.dragons
      /\ \A d \in session.dragons : t.creator[d] = CreatorShown(session, p, d)
      /\ t.vote.exists = (session.ballot # "none")
      /\ t.vote.revealed = (session.ballot = "revealed")
      /\ t.vote.eligible = Cardinality(session.eligible)
      /\ t.vote.submitted = Cardinality(Cast) /\ t.vote.mine = session.votes[p]
  BY ToldIs
<1> HIDE DEF t
<1>3. \A n, names : n \in names => ForHost(t, names) # {}
  BY <1>2 DEF ForHost
<1>4. CASE session.phase = "Lobby"
  BY <1>2, <1>3, <1>4 DEF Buttons, LobbyView, t
<1>5. CASE session.phase = "Voting" /\ session.ballot = "revealed"
  <2>1. Revealed(t) /\ Buttons(t) = EndView(t) /\ t.phase # "End"
    BY <1>2, <1>5 DEF Revealed, Buttons
  <2>2. ForHost(t, {"EndSession"}) # {}
    BY <1>3
  <2>3. QED
    BY <2>1, <2>2 DEF EndView, t
<1>6. CASE session.phase = "Voting" /\ session.ballot # "revealed"
  <2>1. ~Revealed(t) /\ Buttons(t) = EndView(t) /\ t.phase # "End"
    BY <1>2, <1>6 DEF Revealed, Buttons
  <2>2. session.ballot = "open"
    BY <1>1, <1>6 DEF Sound, CountedBallot, Session
  <2>3. session.eligible = session.players /\ Cardinality(session.players) > 1
    BY <1>6, <2>2 DEF BallotDue
  <2>4. CASE session.votes[p] = NoOne
    <3>1. PICK d \in session.players : d # p
      <4>1. SUFFICES ASSUME session.players = {p} PROVE FALSE
        OBVIOUS
      <4>2. Cardinality({p}) = 1
        BY FS_Singleton
      <4>3. Cardinality(session.players) = 1
        BY <4>1, <4>2
      <4>4. QED
        BY <2>3, <4>3
    <3>2. d \in session.dragons /\ d # NoOne
      BY <1>1, <1>6, NoOneAssumption DEF Sound, Paired, Session
    <3>3. t.creator[d] # p
      BY <1>1, <1>2, <3>1, <3>2, NoOneAssumption DEF CreatorShown
    <3>4. d \in VotingCards(t)
      BY <1>2, <2>4, <3>2, <3>3 DEF VotingCards
    <3>5. VoteFor(d) \in EndView(t)
      BY <2>1, <3>4 DEF EndView
    <3>6. QED
      BY <2>1, <3>5 DEF t
  <2>5. CASE session.votes[p] # NoOne
    <3>1. p \in Cast /\ Cast \in SUBSET Player
      BY <1>1, <2>5
    <3>2. IsFiniteSet(Cast) /\ Cardinality(Cast) \in Nat
      BY <3>1, PlayerAssumption, FS_Subset, FS_CardinalityType
    <3>3. Cardinality(Cast) # 0
      BY <3>1, <3>2, FS_EmptySet
    <3> HIDE DEF Cast
    <3>4. Cardinality(Cast) > 0
      BY <3>2, <3>3
    <3>5. IsFiniteSet(session.players) /\ Cardinality(session.players) \in Nat
      BY <1>1, PlayerAssumption, FS_Subset, FS_CardinalityType DEF Session
    <3>6. Cardinality(session.eligible) > 0
      BY <2>3, <3>5
    <3>7. RevealReady(t)
      BY <1>2, <2>2, <3>4, <3>6 DEF RevealReady
    <3>8. ForHost(t, {"RevealVotingResults"}) # {}
      BY <1>3
    <3>9. QED
      BY <2>1, <3>7, <3>8 DEF EndView, t
  <2>6. QED
    BY <2>4, <2>5
<1>7. QED
  BY <1>4, <1>5, <1>6

(* A player who sees the current state is offered nothing the server then  *)
(* refuses, but where that is left to the server; and in the lobby and     *)
(* while voting the host has a way on.  The client works out its buttons   *)
(* from views, the server its answer from the session, whatever reloads,   *)
(* resets and judges came before.                                          *)
THEOREM OffersAgree == Spec => []ClientAndServerAgree
<1>1. IInv /\ BallotDue(session) => ClientAndServerAgree
  <2>1. SUFFICES ASSUME IInv, BallotDue(session) PROVE ClientAndServerAgree
    OBVIOUS
  <2>2. ASSUME NEW p \in Watching, NEW c \in Buttons(Told(session, p))
        PROVE  LeftToTheServer(c) \/ Accepts(p, c)
    <3>1. cached /\ p \in session.players
      BY DEF Watching
    <3>2. session.phase \in Phase
      BY <2>1 DEF IInv, TypeOK, Session
    <3>3. QED
      BY <2>1, <3>1, <3>2, PlayOffersAccepted, EndOffersAccepted DEF Phase
  <2>3. HostGoesOn
    BY <2>1, HostIsOffered DEF HostGoesOn, Watching
  <2>4. QED
    BY <2>2, <2>3 DEF ClientAndServerAgree, OffersAreAccepted
<1>2. BallotDue(stored) /\ [Game!Next]_Game!game_vars => BallotDue(stored)'
  BY GameKeepsBallotDue
<1>3. Spec => []BallotDue(stored)
  <2>1. Game!Spec => []BallotDue(stored)
    BY <1>2, InitBallotDue, PTL DEF Game!Spec
  <2>2. QED
    BY <2>1, WorkshopIsAGame, PTL DEF ImplementsGameFlow
<1>4. DurableProgress /\ BallotDue(stored) => BallotDue(session)
  BY CachedBallotDue
<1>5. QED
  BY <1>1, <1>3, <1>4, InvariantHolds, ProgressIsDurable, PTL
=============================================================================
