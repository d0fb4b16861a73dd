------------------------------- MODULE Offers -------------------------------
(***************************************************************************)
(* What the web client lets a player do, and whether the server agrees.    *)
(*                                                                         *)
(* The client decides by itself which buttons a view has and which of them *)
(* are enabled, from the state the server last sent it; the server decides *)
(* again, from the session and by rules of its own.  Told is that state,   *)
(* Buttons what the client makes of it, and Accepts what the server would  *)
(* do with the command.  The buttons of the dragon's care, always enabled  *)
(* while there is no cooldown, are left out; so are buttons disabled while *)
(* an operation is pending or the connection is down.                      *)
(***************************************************************************)
EXTENDS Workshop

-----------------------------------------------------------------------------
(* What the server tells player p. *)

(* While the vote is open, only the creator is told whose dragon it is.    *)
Hidden(s) == s.phase = "Voting" /\ s.ballot # "revealed"
CreatorHidden(s, p, d) == IF Hidden(s) THEN NoOne ELSE d    \* variant: from all
CreatorShown(s, p, d)  == IF Hidden(s) /\ d # p THEN NoOne ELSE d

(* client_voting_state; the ballot is "none" where there is no vote.       *)
Ballot(s, p) ==
  [ exists    |-> s.ballot # "none",
    eligible  |-> Cardinality(s.eligible),
    submitted |-> Cardinality({q \in Player : s.votes[q] # NoOne}),
    mine      |-> s.votes[p],
    revealed  |-> s.ballot = "revealed" ]

Told(s, p) ==
  [ phase   |-> s.phase,
    me      |-> p,
    isHost  |-> s.host = p,
    creator |-> [d \in s.dragons |-> CreatorShown(s, p, d)],
    vote    |-> Ballot(s, p) ]

-----------------------------------------------------------------------------
(* What the client offers. *)

Command(name)  == [name |-> name, dragon |-> NoOne]
VoteFor(d)     == [name |-> "SubmitVote", dragon |-> d]
ForHost(t, names) == IF t.isHost THEN {Command(n) : n \in names} ELSE {}

Revealed(t)    == t.vote.exists /\ t.vote.revealed
RevealReady(t) == t.vote.exists /\ t.vote.eligible > 0 /\ t.vote.submitted > 0

(* Cards are blocked for the player's own dragon and the one voted for.    *)
VotingCards(t) == {d \in DOMAIN t.creator : d # t.vote.mine /\ t.creator[d] # t.me}

LobbyView(t)    == ForHost(t, {"StartPhase1"})
Phase1View(t)   == ForHost(t, {"StartHandover"})
HandoverView(t) == {Command("SubmitTags")} \cup ForHost(t, {"StartPhase2"})
Phase2View(t)   == ForHost(t, {"EndGame", "ResetGame"})
(* One view for the judge's review, the vote and the end.                  *)
EndView(t) ==
  IF t.phase = "End" THEN {}
  ELSE (IF Revealed(t) THEN ForHost(t, {"EndSession"}) ELSE {VoteFor(d) : d \in VotingCards(t)})
       \cup (IF RevealReady(t) /\ ~Revealed(t) THEN ForHost(t, {"RevealVotingResults"}) ELSE {})

Buttons(t) ==
  CASE t.phase = "Lobby"    -> LobbyView(t)
    [] t.phase = "Phase1"   -> Phase1View(t)
    [] t.phase = "Handover" -> HandoverView(t)
    [] t.phase = "Phase2"   -> Phase2View(t)
    [] OTHER                -> EndView(t)

-----------------------------------------------------------------------------
(* What the server does with it. *)

Accepts(p, c) ==
  CASE c.name = "StartPhase1"         -> MayStartPhase1(p)
    [] c.name = "StartHandover"       -> MayStartHandover(p)
    [] c.name = "SubmitTags"          -> MaySubmitTags(p)
    [] c.name = "StartPhase2"         -> MayStartPhase2(p)
    [] c.name = "EndGame"             -> MayOpenVoting(p)
    [] c.name = "ResetGame"           -> IsHost(p)
    [] c.name = "SubmitVote"          -> MaySubmitVote(p, c.dragon)
    [] c.name = "RevealVotingResults" -> MayReveal(p)
    [] c.name = "EndSession"          -> MayEndSession(p)

(* Where the client leaves it to the server to say no: while somebody has  *)
(* no character or no notes yet; and in the judge's review, which the web  *)
(* client cannot start, and where it shows the cards of a vote that has    *)
(* not been opened.                                                        *)
LeftToTheServer(c) ==
  \/ c.name = "StartPhase1" /\ ~(session.players \subseteq session.ready)
  \/ c.name = "StartPhase1" /\ session.game >= MaxGames                    \* a bound
  \/ c.name = "StartPhase2" /\ MissingHandover(session) # {} /\ timer # "expired"
  \/ c.name = "SubmitVote" /\ session.phase = "Judge"

Watching == IF cached THEN session.players \cap sockets ELSE {}

(* A player who sees the current state is offered nothing that the server  *)
(* then refuses, except where that is left to the server.                  *)
OffersAreAccepted ==
  \A p \in Watching : \A c \in Buttons(Told(session, p)) :
    LeftToTheServer(c) \/ Accepts(p, c)

(* In a phase that no clock ends, a host who sees the current state is     *)
(* offered a way on: to the next phase, or a vote of their own that makes  *)
(* one possible.                                                           *)
HostGoesOn ==
  session.host \in Watching /\ session.phase \in {"Lobby", "Voting"} =>
    Buttons(Told(session, session.host)) # {}

(* The buttons of the web client take a workshop from its lobby to its     *)
(* end, and mislead nobody on the way.                                     *)
ClientAndServerAgree == OffersAreAccepted /\ HostGoesOn
=============================================================================
