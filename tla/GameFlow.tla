------------------------------- MODULE GameFlow -------------------------------
(***************************************************************************)
(* What a workshop promises its players, without servers, caches, sockets, *)
(* hosts, clocks or judges: one game after the other, each in the order of *)
(* its phases.  Who or what moves the game on - the host, a deadline, a    *)
(* judge that comes late - is left open, and so is how it is kept; what is *)
(* promised is that no phase is skipped or repeated, that players come     *)
(* before the game and stay in it, that everybody is given another's       *)
(* dragon, and that what they wrote and voted stays until the next game.   *)
(***************************************************************************)
EXTENDS Naturals, FiniteSets

CONSTANTS Player, NoOne

VARIABLES
  phase,
  players,
  keeps,      \* whose dragon a player has; dragons are named by their creators
  written,    \* the dragons players have written notes for
  ballot,
  eligible,   \* who may vote
  votes,
  game        \* how many games have begun

game_vars == <<phase, players, keeps, written, ballot, eligible, votes, game>>

Nobody == [p \in Player |-> NoOne]
NoVote == ballot' = "none" /\ eligible' = {} /\ votes' = Nobody
SameVote == UNCHANGED <<ballot, eligible, votes>>
Same == UNCHANGED <<players, keeps, written, game>>

Init ==
  /\ phase = "Lobby" /\ players \subseteq Player /\ game = 0
  /\ keeps = Nobody /\ written = {} /\ ballot = "none" /\ eligible = {} /\ votes = Nobody

Seat(p) ==
  /\ phase = "Lobby" /\ p \notin players
  /\ players' = players \cup {p}
  /\ UNCHANGED <<phase, keeps, written, game>> /\ SameVote

(* Everybody begins with the dragon they have created.                     *)
Begin ==
  /\ phase = "Lobby" /\ players # {}
  /\ phase' = "Phase1" /\ game' = game + 1
  /\ keeps' = [p \in Player |-> IF p \in players THEN p ELSE NoOne]
  /\ written' = {} /\ NoVote /\ UNCHANGED players

CallHandover == phase = "Phase1" /\ phase' = "Handover" /\ Same /\ SameVote

WriteNotes(p) ==
  /\ phase = "Handover" /\ p \in players
  /\ written' = written \cup {keeps[p]}
  /\ UNCHANGED <<phase, players, keeps, game>> /\ SameVote

(* The players exchange their dragons, one for each.                       *)
Exchange ==
  /\ phase = "Handover" /\ phase' = "Phase2"
  /\ {keeps'[p] : p \in players} = players
  /\ Cardinality(players) > 1 => \A p \in players : keeps'[p] # p
  /\ UNCHANGED <<players, written, game>> /\ SameVote

Judge == phase = "Phase2" /\ phase' = "Judge" /\ Same /\ SameVote

(* A lone player has nobody to vote for.                                   *)
OpenVote ==
  /\ phase \in {"Phase2", "Judge"} /\ phase' = "Voting"
  /\ eligible' = (IF Cardinality(players) > 1 THEN players ELSE {})
  /\ ballot' = (IF eligible' = {} THEN "revealed" ELSE "open")
  /\ votes' = Nobody
  /\ Same

Vote(p, d) ==
  /\ phase = "Voting" /\ ballot = "open"
  /\ p \in eligible /\ d \in players \ {p}
  /\ votes' = [votes EXCEPT ![p] = d]
  /\ UNCHANGED <<phase, ballot, eligible>> /\ Same

Reveal ==
  /\ phase = "Voting"
  /\ eligible = {} \/ \E p \in eligible : votes[p] # NoOne
  /\ ballot' = "revealed"
  /\ UNCHANGED <<phase, eligible, votes>> /\ Same

Finish == phase = "Voting" /\ ballot = "revealed" /\ phase' = "End" /\ Same /\ SameVote

(* One player stays, for another game.                                     *)
Reset(p) ==
  /\ p \in players
  /\ phase' = "Lobby" /\ players' = {p}
  /\ keeps' = Nobody /\ written' = {} /\ NoVote
  /\ UNCHANGED game

Next ==
  \/ Begin \/ CallHandover \/ Exchange \/ Judge \/ OpenVote \/ Reveal \/ Finish
  \/ \E p \in Player : Seat(p) \/ WriteNotes(p) \/ Reset(p) \/ \E d \in Player : Vote(p, d)

Spec == Init /\ [][Next]_game_vars
=============================================================================
