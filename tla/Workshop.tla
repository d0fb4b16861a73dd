------------------------------ MODULE Workshop ------------------------------
(***************************************************************************)
(* One workshop session of dragon-shift: the phase machine, the players    *)
(* and their presence, the host, the dragons and who cares for them, the   *)
(* vote and the background judge.                                          *)
(*                                                                         *)
(* session is the copy in the server's cache (AppState.sessions), stored   *)
(* the row of workshop_sessions, sockets the players with a websocket on   *)
(* the server, rows those with a live row of realtime_connections.  A      *)
(* handler runs under the session's write lock and lease, so a handler is  *)
(* one action; what the code does before it takes the lease, or after it   *)
(* has released it, is an action of its own (Release / Disconnect,         *)
(* JudgeSnapshot / JudgeApply).  What can happen inside a handler, between *)
(* its change of the cache and its save, is the subject of SessionCache.   *)
(*                                                                         *)
(* Player ids are numbers: the maps of the session are BTreeMaps and their *)
(* key order is observable.  The dragon of player p is called dragon_<p>   *)
(* by the code, so a dragon is named here by the player who created it.    *)
(***************************************************************************)
EXTENDS Naturals, FiniteSets

CONSTANTS
  Player,      \* every player id that can ever be drawn, in key order
  NoOne,       \* the absent player, dragon or vote (None)
  Account,     \* the accounts
  AccountOf,   \* the account a player id belongs to
  Owner,       \* the account that created the workshop
  JudgeRun,    \* the background judge tasks that may be in flight together
  MaxGames     \* bound: how often phase 1 may start

ASSUME PlayerAssumption  == Player \subseteq Nat /\ IsFiniteSet(Player)
ASSUME NoOneAssumption   == NoOne \notin Player
ASSUME AccountAssumption == AccountOf \in [Player -> Account] /\ Owner \in Account
ASSUME BoundAssumption   == MaxGames \in Nat

VARIABLES
  session,  \* the cached WorkshopSession; the persisted one when nothing is cached
  cached,   \* the session is in the cache
  stored,   \* the persisted WorkshopSession
  sockets,  \* players with an attached websocket
  rows,     \* players with a live realtime_connections row
  leaving,  \* what a closing socket, waiting for the lease, saw of its player
  timer,    \* how far the current phase's clock has run
  judges    \* the background runs of the judge

presence == <<sockets, rows, leaving>>
vars == <<session, cached, stored, presence, timer, judges>>

-----------------------------------------------------------------------------
(* State. *)

Phase      == {"Lobby", "Phase1", "Handover", "Phase2", "Judge", "Voting", "End"}
Notes      == {"none", "own", "auto"}       \* a dragon's three handover tags
MaybeOne   == Player \cup {NoOne}

Session == [
  phase     : Phase,
  players   : SUBSET Player,
  joinedAt  : [Player -> Nat],       \* 0: the id was never drawn
  joins     : Nat,
  connected : SUBSET Player,         \* players with is_connected
  host      : MaybeOne,
  reserved  : BOOLEAN,               \* reserved_host_account_id is set
  ready     : SUBSET Player,         \* players with a selected_character
  dragons   : SUBSET Player,
  caretaker : [Player -> MaybeOne],  \* current_owner_id of a dragon
  caring    : [Player -> MaybeOne],  \* current_dragon_id of a player
  tags      : [Player -> Notes],     \* handover_tags of a dragon
  ballot    : {"none", "open", "revealed"},
  eligible  : SUBSET Player,
  votes     : [Player -> MaybeOne],
  judged    : [Player -> Nat],       \* game whose record the dragon's scores judge
  score     : [Player -> Nat],
  warned    : BOOLEAN,
  game      : Nat ]                  \* history: how often phase 1 has started

TimedPhase    == {"Phase1", "Handover", "Phase2"}
AfterHandover == {"Phase2", "Judge", "Voting", "End"}

Closing == {"no", "shown", "hidden"}  \* hidden: the cache had shown it offline

JudgeTask == [stage : {"idle", "queued", "thinking"}, game : Nat, dragons : SUBSET Player]
IdleTask  == [stage |-> "idle", game |-> 0, dragons |-> {}]

NoPlayers == [p \in Player |-> NoOne]
Zeroes    == [p \in Player |-> 0]

(* An empty lobby, its host reserved for the creator's account. *)
NewSession == [
  phase |-> "Lobby", players |-> {}, joinedAt |-> Zeroes, joins |-> 0,
  connected |-> {}, host |-> NoOne, reserved |-> TRUE, ready |-> {},
  dragons |-> {}, caretaker |-> NoPlayers, caring |-> NoPlayers,
  tags |-> [p \in Player |-> "none"], ballot |-> "none", eligible |-> {},
  votes |-> NoPlayers, judged |-> Zeroes, score |-> Zeroes,
  warned |-> FALSE, game |-> 0 ]

-----------------------------------------------------------------------------
(* Host assignment. *)

OwnersAmong(S) == {p \in S : AccountOf[p] = Owner}
OwnerHosts(s)  == s.host \in s.players /\ AccountOf[s.host] = Owner
First(S)       == CHOOSE p \in S : \A q \in S : p <= q
Earliest(s, S) == CHOOSE p \in S : \A q \in S : s.joinedAt[p] <= s.joinedAt[q]
Candidates(s, preferConnected) ==
  IF preferConnected THEN s.players \cap s.connected ELSE s.players

ReservedHost(s, here) ==
  IF OwnerHosts(s) THEN s.host
  ELSE IF OwnersAmong(here) # {} THEN First(OwnersAmong(here)) ELSE NoOne

(* The host stays, an ownerless lobby stays without, or the earliest to    *)
(* join of those who qualify takes over; the owner comes before them all.  *)
HostOrEarliest(s, here) ==
  CASE s.host \in here -> s.host
    [] s.host = NoOne /\ OwnersAmong(s.players) = {} -> NoOne
    [] OTHER -> IF here = {} THEN NoOne ELSE Earliest(s, here)
NextHost(s, here) ==
  IF OwnersAmong(here) # {} /\ ~OwnerHosts(s) THEN First(OwnersAmong(here))
  ELSE HostOrEarliest(s, here)

EnsureHostAssigned(s, preferConnected) ==
  LET here == Candidates(s, preferConnected)
      host == IF s.reserved THEN ReservedHost(s, here) ELSE NextHost(s, here)
  IN  [s EXCEPT !.host = host, !.reserved = @ /\ host = NoOne]

AddPlayer(s, p, withCharacter) ==
  LET seated == [s EXCEPT
        !.players = @ \cup {p}, !.connected = @ \cup {p},
        !.ready = IF withCharacter THEN @ \cup {p} ELSE @,
        !.joins = @ + 1, !.joinedAt[p] = s.joins + 1]
      owns   == AccountOf[p] = Owner
  IN  EnsureHostAssigned(
        [seated EXCEPT !.host = IF owns /\ (s.reserved \/ s.host = NoOne) THEN p ELSE @,
                       !.reserved = @ /\ ~owns],
        FALSE)

-----------------------------------------------------------------------------
(* Loading and saving a session. *)

(* Variant: presence is saved with the rest. *)
SanitizedNothing(s) == s

(* Presence is never persisted: saving clears it, loading starts from      *)
(* nobody connected and takes the live registrations.                      *)
Sanitized(s) == [s EXCEPT !.connected = {}]

Restored(s)  == EnsureHostAssigned(Sanitized(s), FALSE)

Reloaded ==
  LET s       == Restored(stored)
      present == rows \cap s.players
  IN  EnsureHostAssigned([s EXCEPT !.connected = present], present # {})

Save(s) == session' = s /\ cached' = TRUE /\ stored' = Sanitized(s)

(* A handler that fails, or has nothing to change, leaves the reloaded     *)
(* copy in the cache.                                                      *)
Refresh == session' = Reloaded /\ cached' = TRUE /\ UNCHANGED stored

-----------------------------------------------------------------------------
(* Phase changes. *)

EnterPhase(s, next) == [s EXCEPT !.phase = next, !.warned = FALSE]

BeginPhase1(s) ==
  LET own == [p \in Player |-> IF p \in s.players THEN p ELSE NoOne]
  IN  [EnterPhase(s, "Phase1") EXCEPT
        !.dragons = s.players, !.caring = own, !.caretaker = own,
        !.tags = [p \in Player |-> "none"], !.ballot = "none", !.eligible = {},
        !.votes = NoPlayers, !.judged = Zeroes, !.score = Zeroes, !.game = @ + 1]

(* The dragons whose tags enter_phase2 fills in itself, and the players it *)
(* still waits for.                                                        *)
HoldsUntagged(s, p) == s.caring[p] \in s.dragons /\ s.tags[s.caring[p]] = "none"
UnattendedOffline(s, deadline) ==     \* variant: the deadline changes nothing
  {p \in s.players : HoldsUntagged(s, p) /\ p \notin s.connected}
Unattended(s, deadline) ==
  {p \in s.players : HoldsUntagged(s, p) /\ (deadline \/ p \notin s.connected)}
AutoFilledAll(s, deadline) ==         \* variant: notes already written are replaced
  LET filled == {s.caring[p] : p \in {q \in s.players : deadline \/ q \notin s.connected}}
  IN  [s EXCEPT !.tags = [d \in Player |-> IF d \in filled THEN "auto" ELSE @[d]]]
AutoFilled(s, deadline) ==
  LET filled == {s.caring[p] : p \in Unattended(s, deadline)}
  IN  [s EXCEPT !.tags = [d \in Player |-> IF d \in filled THEN "auto" ELSE @[d]]]
MissingHandover(s) == {p \in s.players \cap s.connected : HoldsUntagged(s, p)}

(* rotate-by-one: the i-th player takes the (i-1)-th dragon, the first     *)
(* player the last one.                                                    *)
Last(S)       == CHOOSE p \in S : \A q \in S : q <= p
Before(S, p)  == {q \in S : q < p}
SameSeat(S, p) == p                   \* variant: the list is not shifted
Previous(S, p) == IF Before(S, p) = {} THEN Last(S) ELSE Last(Before(S, p))
Following(S, d) == CHOOSE p \in S : Previous(S, p) = d

RotatedOneSided(s) ==                 \* variant: the dragons keep their current owner
  [EnterPhase(s, "Phase2") EXCEPT
    !.caring = [p \in Player |->
                  IF p \in s.players THEN Previous(s.dragons, p) ELSE @[p]]]
Rotated(s) ==
  [EnterPhase(s, "Phase2") EXCEPT
    !.caring    = [p \in Player |->
                     IF p \in s.players THEN Previous(s.dragons, p) ELSE @[p]],
    !.caretaker = [d \in Player |->
                     IF d \in s.dragons THEN Following(s.players, d) ELSE @[d]]]

EnterVoting(s) ==
  LET holders  == {p \in s.players : s.caring[p] # NoOne}
      eligible == IF Cardinality(holders) > 1 THEN holders ELSE {}
  IN  [EnterPhase(s, "Voting") EXCEPT
        !.eligible = eligible, !.votes = NoPlayers,
        !.ballot = IF eligible = {} THEN "revealed" ELSE "open"]

ResetToLobby(s, host) ==
  [s EXCEPT !.phase = "Lobby", !.ballot = "none", !.eligible = {}, !.votes = NoPlayers,
            !.dragons = {}, !.tags = [d \in Player |-> "none"], !.judged = Zeroes,
            !.caretaker = NoPlayers, !.caring = NoPlayers, !.score = Zeroes,
            !.players = {host}, !.connected = @ \cap {host}, !.ready = @ \cap {host}]

(* An evaluation gives every dragon one observation score, for the player  *)
(* who created it, and one care score, for its current owner.              *)
ObservationScore == 1
CareScore        == 10

(* Variant: the scores of an earlier run are not cleared first. *)
AddJudgeScores(s, evaluated, game) ==
  LET known   == evaluated \cap s.dragons
      care(p) == Cardinality({d \in known : s.caretaker[d] = p})
  IN  [s EXCEPT
        !.judged = [d \in Player |-> IF d \in known THEN game ELSE @[d]],
        !.score  = [p \in Player |->
           IF p \in s.players
           THEN @[p] + (IF p \in known THEN ObservationScore ELSE 0) + CareScore * care(p)
           ELSE 0]]

ApplyJudgeScores(s, evaluated, game) ==
  LET known   == evaluated \cap s.dragons
      care(p) == Cardinality({d \in known : s.caretaker[d] = p})
  IN  [s EXCEPT
        !.judged = [d \in Player |-> IF d \in known THEN game ELSE @[d]],
        !.score  = [p \in Player |->
           IF p \in s.players
           THEN (IF p \in known THEN ObservationScore ELSE 0) + CareScore * care(p)
           ELSE 0]]

-----------------------------------------------------------------------------
(* Joining and presence. *)

AccountSeated(s, a) == \E q \in s.players : AccountOf[q] = a

Join(p, withCharacter) ==
  LET s == Reloaded IN
  /\ s.joinedAt[p] = 0
  /\ ~AccountSeated(s, AccountOf[p])
  /\ s.phase = "Lobby"
  /\ Save(AddPlayer(s, p, withCharacter))
  /\ UNCHANGED <<presence, timer, judges>>

(* A rejoin, by reconnect token or by account. *)
Rejoin(p) ==
  LET s == Reloaded IN
  /\ p \in s.players
  /\ Save(EnsureHostAssigned([s EXCEPT !.connected = @ \cup {p}], TRUE))
  /\ UNCHANGED <<presence, timer, judges>>

(* A websocket attaches; a player already shown as connected costs no      *)
(* write.                                                                  *)
Attach(p) ==
  LET s == Reloaded IN
  /\ p \in s.players
  /\ sockets' = sockets \cup {p}
  /\ rows' = rows \cup {p}
  /\ \/ /\ p \notin s.connected
        /\ Save(EnsureHostAssigned([s EXCEPT !.connected = @ \cup {p}], TRUE))
     \/ /\ p \in s.connected
        /\ Refresh
  /\ UNCHANGED <<leaving, timer, judges>>

(* Any access to an uncached session loads it (ensure_session_cached); a   *)
(* join, attach or judge run that fails after its reload refreshes it.     *)
Load ==
  /\ Refresh
  /\ UNCHANGED <<presence, timer, judges>>

(* A websocket closes: its row goes first, and what the cache shows of the *)
(* player is read, before the lease is acquired.                           *)
Release(p) ==
  /\ p \in sockets
  /\ leaving[p] = "no"
  /\ sockets' = sockets \ {p}
  /\ rows' = rows \ {p}
  /\ leaving' = [leaving EXCEPT ![p] =
       IF cached /\ p \in session.players \ session.connected THEN "hidden" ELSE "shown"]
  /\ UNCHANGED <<session, cached, stored, timer, judges>>

Disconnect(p) ==
  LET s == Reloaded IN
  /\ leaving[p] # "no"
  /\ leaving' = [leaving EXCEPT ![p] = "no"]
  /\ \/ /\ p \in s.players
        /\ p \in s.connected \/ leaving[p] = "shown"
        /\ Save(EnsureHostAssigned([s EXCEPT !.connected = @ \ {p}], TRUE))
     \/ /\ p \notin s.players \/ (p \notin s.connected /\ leaving[p] = "hidden")
        /\ Refresh
  /\ UNCHANGED <<sockets, rows, timer, judges>>

(* The lease could not be had in two seconds: nothing is recorded. *)
AbandonDisconnect(p) ==
  /\ leaving[p] # "no"
  /\ leaving' = [leaving EXCEPT ![p] = "no"]
  /\ UNCHANGED <<session, cached, stored, sockets, rows, timer, judges>>

(* Nobody renewed the row for its fifteen seconds. *)
ExpireRow(p) ==
  /\ p \in rows
  /\ rows' = rows \ {p}
  /\ UNCHANGED <<session, cached, stored, sockets, leaving, timer, judges>>

(* The server restarts: the cache, the sockets and the tasks are gone, the *)
(* rows of the dead sockets stay until they expire.                        *)
Restart ==
  /\ session' = stored
  /\ cached' = FALSE
  /\ sockets' = {}
  /\ leaving' = [p \in Player |-> "no"]
  /\ judges' = [j \in JudgeRun |-> IdleTask]
  /\ UNCHANGED <<stored, rows, timer>>

-----------------------------------------------------------------------------
(* The commands of a workshop. *)

(* A command loads the session if it has to, and never reloads it.  When   *)
(* it is accepted is said apart from what it does: Offers asks for it too. *)
IsHost(p)   == cached /\ p = session.host
IsPlayer(p) == cached /\ p \in session.players

MayStartPhase1(p) ==
  /\ IsHost(p)
  /\ session.phase = "Lobby"
  /\ session.players \subseteq session.ready
  /\ session.game < MaxGames
StartPhase1(p) ==
  /\ MayStartPhase1(p)
  /\ Save(BeginPhase1(session))
  /\ timer' = "running"
  /\ UNCHANGED <<presence, judges>>

SelectCharacter(p) ==
  /\ IsPlayer(p)
  /\ Save([session EXCEPT !.ready = @ \cup {p}])
  /\ UNCHANGED <<presence, timer, judges>>

MayStartHandover(p) == IsHost(p) /\ session.phase = "Phase1"
StartHandover(p) ==
  /\ MayStartHandover(p)
  /\ Save(EnterPhase(session, "Handover"))
  /\ timer' = "running"
  /\ UNCHANGED <<presence, judges>>

MaySubmitTags(p) ==
  /\ IsPlayer(p)
  /\ session.phase = "Handover"
  /\ session.caring[p] \in session.dragons

(* Variant: the notes reach the cache only. *)
SubmitTagsUnsaved(p) ==
  /\ MaySubmitTags(p)
  /\ session' = [session EXCEPT !.tags[session.caring[p]] = "own"]
  /\ UNCHANGED <<cached, stored, presence, timer, judges>>

SubmitTags(p) ==
  /\ MaySubmitTags(p)
  /\ Save([session EXCEPT !.tags[session.caring[p]] = "own"])
  /\ UNCHANGED <<presence, timer, judges>>

MayStartPhase2(p) ==
  /\ IsHost(p)
  /\ session.phase = "Handover"
  /\ timer = "expired" \/ MissingHandover(session) = {}
StartPhase2(p) ==
  /\ MayStartPhase2(p)
  /\ Save(Rotated(AutoFilled(session, timer = "expired")))
  /\ timer' = "running"
  /\ UNCHANGED <<presence, judges>>

(* The host is told who is missing; the tags filled in meanwhile stay in   *)
(* the cache, unsaved.                                                     *)
RejectPhase2(p) ==
  /\ IsHost(p)
  /\ session.phase = "Handover"
  /\ timer # "expired"
  /\ MissingHandover(session) # {}
  /\ session' = AutoFilled(session, FALSE)
  /\ UNCHANGED <<cached, stored, presence, timer, judges>>

QueueJudge == \E j \in JudgeRun :
  /\ judges[j].stage = "idle"
  /\ judges' = [judges EXCEPT ![j].stage = "queued"]

(* EndGame, and StartVoting: only leaving phase 2 queues the judge. *)
MayOpenVoting(p) == IsHost(p) /\ session.phase \in {"Phase2", "Judge"}
OpenVoting(p) ==
  /\ MayOpenVoting(p)
  /\ Save(EnterVoting(session))
  /\ timer' = "running"
  /\ IF session.phase = "Phase2" THEN QueueJudge ELSE UNCHANGED judges
  /\ UNCHANGED presence

(* Variant: nobody checks whose dragon it is. *)
SubmitAnyVote(p, d) ==
  /\ cached
  /\ session.phase = "Voting"
  /\ session.ballot = "open"
  /\ p \in session.eligible
  /\ d \in session.dragons
  /\ Save([session EXCEPT !.votes[p] = d])
  /\ UNCHANGED <<presence, timer, judges>>

MaySubmitVote(p, d) ==
  /\ cached
  /\ session.phase = "Voting"
  /\ session.ballot = "open"
  /\ p \in session.eligible
  /\ d \in session.dragons
  /\ d # p
SubmitVote(p, d) ==
  /\ MaySubmitVote(p, d)
  /\ Save([session EXCEPT !.votes[p] = d])
  /\ UNCHANGED <<presence, timer, judges>>

MayReveal(p) ==
  /\ IsHost(p)
  /\ session.phase = "Voting"
  /\ session.ballot # "none"
  /\ session.eligible = {} \/ \E q \in Player : session.votes[q] # NoOne
RevealVotingResults(p) ==
  /\ MayReveal(p)
  /\ Save([session EXCEPT !.ballot = "revealed"])
  /\ UNCHANGED <<presence, timer, judges>>

MayEndSession(p) == IsHost(p) /\ session.phase = "Voting" /\ session.ballot # "open"
EndSession(p) ==
  /\ MayEndSession(p)
  /\ Save(EnterPhase(session, "End"))
  /\ timer' = "running"
  /\ UNCHANGED <<presence, judges>>

ResetGame(p) ==
  /\ IsHost(p)
  /\ Save(ResetToLobby(session, p))
  /\ UNCHANGED <<presence, timer, judges>>

-----------------------------------------------------------------------------
(* The background judge. *)

(* The host asks for another run at the end. *)
RequestJudge(p) ==
  /\ IsHost(p)
  /\ session.phase = "End"
  /\ QueueJudge
  /\ UNCHANGED <<session, cached, stored, presence, timer>>

(* The task copies the session without a lock and waits for the model. *)
JudgeSnapshot(j) ==
  /\ judges[j].stage = "queued"
  /\ judges' = [judges EXCEPT ![j] =
       [stage |-> "thinking", game |-> session.game, dragons |-> session.dragons]]
  /\ UNCHANGED <<session, cached, stored, presence, timer>>

(* Variant: a judgement ends whatever phase it finds.                      *)
JudgedAnyPhase(task) ==
  EnterPhase(ApplyJudgeScores(Reloaded, task.dragons, task.game), "Judge")
Judged(task) ==
  LET scored == ApplyJudgeScores(Reloaded, task.dragons, task.game)
  IN  IF scored.phase = "Phase2" THEN EnterPhase(scored, "Judge") ELSE scored

JudgeApply(j) ==
  /\ judges[j].stage = "thinking"
  /\ judges' = [judges EXCEPT ![j] = IdleTask]
  /\ Save(Judged(judges[j]))
  /\ UNCHANGED <<presence, timer>>

(* The run is lost: no lease in time, or the write failed. *)
JudgeFail(j) ==
  /\ judges[j].stage # "idle"
  /\ judges' = [judges EXCEPT ![j] = IdleTask]
  /\ Refresh \/ UNCHANGED <<session, cached, stored>>
  /\ UNCHANGED <<presence, timer>>

(* The lease is lost after the scoring: unlike every other handler, this   *)
(* one leaves its unsaved result in the cache.                             *)
JudgeLeaseLost(j) ==
  /\ judges[j].stage = "thinking"
  /\ judges' = [judges EXCEPT ![j] = IdleTask]
  /\ session' = Judged(judges[j])
  /\ cached' = TRUE
  /\ UNCHANGED <<stored, presence, timer>>

-----------------------------------------------------------------------------
(* The ticker. *)

(* The clock of a timed phase: the last thirty seconds, then the end. *)
TimePasses ==
  /\ stored.phase \in TimedPhase
  /\ \/ timer = "running" /\ timer' = "ending"
     \/ timer = "ending"  /\ timer' = "expired"
  /\ UNCHANGED <<session, cached, stored, presence, judges>>

(* The warning is noted in the cached copy only. *)
EmitPhaseWarning ==
  /\ cached
  /\ session.phase \in TimedPhase
  /\ timer # "running"
  /\ ~session.warned
  /\ session' = [session EXCEPT !.warned = TRUE]
  /\ UNCHANGED <<cached, stored, presence, timer, judges>>

(* Variant: the deadline of the handover waits for missing notes. *)
AdvanceWhenComplete ==
  /\ cached
  /\ timer = "expired"
  /\ \/ session.phase = "Phase1" /\ Save(EnterPhase(session, "Handover")) /\ UNCHANGED judges
     \/ /\ session.phase = "Handover"
        /\ MissingHandover(session) = {}
        /\ Save(Rotated(AutoFilled(session, FALSE)))
        /\ UNCHANGED judges
     \/ session.phase = "Phase2" /\ Save(EnterVoting(session)) /\ QueueJudge
  /\ timer' = "running"
  /\ UNCHANGED presence

AdvanceOverduePhase ==
  /\ cached
  /\ timer = "expired"
  /\ \/ /\ session.phase = "Phase1"
        /\ Save(EnterPhase(session, "Handover"))
        /\ UNCHANGED judges
     \/ /\ session.phase = "Handover"
        /\ Save(Rotated(AutoFilled(session, TRUE)))
        /\ UNCHANGED judges
     \/ /\ session.phase = "Phase2"
        /\ Save(EnterVoting(session))
        /\ QueueJudge
  /\ timer' = "running"
  /\ UNCHANGED presence

-----------------------------------------------------------------------------
(* The specification. *)

(* create_workshop_lobby leaves an empty lobby; create_workshop seats the  *)
(* creator as its first player.                                            *)
Init ==
  /\ \/ session = NewSession
     \/ \E p \in OwnersAmong(Player), b \in BOOLEAN :
          session = AddPlayer([NewSession EXCEPT !.reserved = FALSE], p, b)
  /\ cached = TRUE
  /\ stored = Sanitized(session)
  /\ sockets = {}
  /\ rows = {}
  /\ leaving = [p \in Player |-> "no"]
  /\ timer = "running"
  /\ judges = [j \in JudgeRun |-> IdleTask]

PresenceStep == \E p \in Player :
  \/ \E b \in BOOLEAN : Join(p, b)
  \/ Rejoin(p) \/ Attach(p) \/ Release(p) \/ Disconnect(p)
  \/ AbandonDisconnect(p) \/ ExpireRow(p)

CommandStep == \E p \in Player :
  \/ StartPhase1(p) \/ SelectCharacter(p) \/ StartHandover(p) \/ SubmitTags(p)
  \/ StartPhase2(p) \/ RejectPhase2(p) \/ OpenVoting(p)
  \/ \E d \in Player : SubmitVote(p, d)
  \/ RevealVotingResults(p) \/ EndSession(p) \/ ResetGame(p) \/ RequestJudge(p)

JudgeStep == \E j \in JudgeRun : JudgeSnapshot(j) \/ JudgeApply(j)
  \/ JudgeFail(j) \/ JudgeLeaseLost(j)

TickerStep == TimePasses \/ EmitPhaseWarning \/ AdvanceOverduePhase

Next == PresenceStep \/ CommandStep \/ JudgeStep \/ TickerStep \/ Load \/ Restart

Spec == Init /\ [][Next]_vars

(* The ticker loop runs every second for the life of the process, and a    *)
(* judge run always ends: the model's answer is awaited with a timeout and *)
(* replaced by a local evaluation.                                         *)
FairSpec ==
  /\ Spec
  /\ WF_vars(TimePasses)
  /\ WF_vars(AdvanceOverduePhase)
  /\ WF_vars(JudgeStep)

-----------------------------------------------------------------------------
(* What must hold. *)

(* Every variable has its type, and presence is never in the stored copy.  *)
TypeOK ==
  /\ session \in Session
  /\ stored \in Session /\ stored.connected = {}
  /\ cached \in BOOLEAN
  /\ sockets \subseteq Player /\ rows \subseteq Player
  /\ leaving \in [Player -> Closing]
  /\ timer \in {"running", "ending", "expired"}
  /\ judges \in [JudgeRun -> JudgeTask]

Paired(s) ==
  s.phase # "Lobby" =>
    /\ s.dragons = s.players
    /\ \A p \in s.players : s.caring[p] \in s.dragons /\ s.caretaker[s.caring[p]] = p
    /\ s.phase \in {"Phase1", "Handover"} => \A p \in s.players : s.caring[p] = p

(* Outside the lobby there is one dragon per player, and "who cares for    *)
(* it" and "whom do I care for" are each other's inverse; until phase 2    *)
(* everybody holds the dragon they created.                                *)
CareIsPairing == Paired(session)

(* Once the dragons have been handed over nobody but a lone player is      *)
(* still with the dragon they created.                                     *)
NobodyKeepsTheirDragon ==
  session.phase \in AfterHandover /\ Cardinality(session.players) > 1 =>
    \A p \in session.players : session.caring[p] # p

(* However the handover ended - all notes in, the host going ahead without *)
(* those offline, or the deadline - every dragon changes hands with notes. *)
NobodyStartsBlind ==
  session.phase \in AfterHandover => \A d \in session.dragons : session.tags[d] # "none"

LegalVotes(s) ==
  /\ s.eligible \subseteq s.players
  /\ \A p \in Player : s.votes[p] # NoOne =>
       p \in s.eligible /\ s.votes[p] \in s.dragons \ {p}

(* Votes are from players who were in the game when the vote opened, for a *)
(* dragon of this game, and never for the voter's own creation.            *)
VotesAreLegal == LegalVotes(session)

VoteTaken(s) == s.eligible = {} \/ \E p \in Player : s.votes[p] # NoOne

(* A session that has ended has shown its results, and where a vote was    *)
(* possible there was one.                                                 *)
EndHasResults ==
  session.phase = "End" => session.ballot = "revealed" /\ VoteTaken(session)

(* A vote is fair from its first ballot to the end of the session: who     *)
(* votes for what stays legal, and the end comes after the result.         *)
VoteIsFair == VotesAreLegal /\ EndHasResults

(* What a player wrote is never lost or replaced by the automatic notes,   *)
(* and a vote once cast is not lost, whatever reloads, disconnects and     *)
(* restarts come in between.                                               *)
WorkIsKept == [][
  session'.game = session.game /\ session'.players = session.players =>
    /\ \A d \in session'.dragons : session.tags[d] = "own" => session'.tags[d] = "own"
    /\ session.phase = "Voting" /\ session'.phase = "Voting" =>
         \A p \in Player : session.votes[p] # NoOne => session'.votes[p] # NoOne ]_vars

OwnNotes(s) == {d \in s.dragons : s.tags[d] = "own"}
Progress(s) == <<s.players, s.joinedAt, s.ready, s.dragons, s.caretaker, s.caring,
                 OwnNotes(s), s.ballot, s.eligible, s.votes, s.game>>

(* The cache runs ahead of the store only in presence, the host derived    *)
(* from it, the warning flag, the automatic notes of a refused handover    *)
(* and the judgement of a run that lost its lease: a crash costs nothing   *)
(* else.                                                                   *)
DurableProgress ==
  /\ Progress(session) = Progress(stored)
  /\ \/ session.phase = stored.phase
     \/ session.phase = "Judge" /\ stored.phase = "Phase2"

(* While somebody is online a workshop lacks a host only if its owner is   *)
(* not among the players.                                                  *)
HostlessOnlyWithoutOwner ==
  session.connected # {} /\ session.host = NoOne => OwnersAmong(session.players) = {}

(* The host is one of the players, and the owner is the host as long as    *)
(* the owner is shown as connected.                                        *)
ConnectedOwnerHosts ==
  /\ session.host # NoOne => session.host \in session.players
  /\ OwnersAmong(session.connected) # {} => OwnerHosts(session)

(* What host assignment owes a workshop, whoever looks at it.              *)
HostIsDue == HostlessOnlyWithoutOwner /\ ConnectedOwnerHosts

(* The players' scores are those of the judgements recorded on the         *)
(* dragons: what the creator's dragon was given for its observations plus  *)
(* what the dragons in care were given, each counted once however often    *)
(* the judge ran.                                                          *)
ScoresMatchJudgement ==
  \A p \in session.players :
    session.score[p] =
      (IF session.judged[p] # 0 THEN ObservationScore ELSE 0)
      + CareScore * Cardinality({d \in session.dragons :
                      session.judged[d] # 0 /\ session.caretaker[d] = p})

(* The same, while the workshop plays its first game: no judge of an       *)
(* earlier game can deliver late then.                                     *)
FirstGameScores == session.game = 1 => ScoresMatchJudgement

(* A timed phase of a session in the cache ends, with or without its host  *)
(* and players.                                                            *)
TimedPhasesEnd == \A ph \in TimedPhase :
  (cached /\ session.phase = ph) ~> (~cached \/ session.phase # ph)

(* What is stored of a workshop is a game as its players were promised it: *)
(* no handler, retried command, late judge, deadline, reload or restart    *)
(* skips a phase, repeats one or goes back to one, seats anybody in a game *)
(* that has begun, or takes back notes or votes.                           *)
Game == INSTANCE GameFlow WITH
  phase <- stored.phase, players <- stored.players, keeps <- stored.caring,
  written <- OwnNotes(stored), ballot <- stored.ballot, eligible <- stored.eligible,
  votes <- stored.votes, game <- stored.game
ImplementsGameFlow == Game!Spec

-----------------------------------------------------------------------------
(* What the tests say, and the code does not do.                           *)

(* The tests of the realtime layer: closing a replaced or old socket must  *)
(* not show a player as disconnected who has a live connection.            *)
NoFalseDisconnect ==
  cached => \A p \in session.players :
    p \in sockets \cap rows /\ leaving[p] = "no" => p \in session.connected

=============================================================================
