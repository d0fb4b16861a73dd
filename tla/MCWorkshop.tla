----------------------------- MODULE MCWorkshop -----------------------------
(***************************************************************************)
(* Instances of Workshop.  o is the owner's account, g and h are guests'.  *)
(* A player who was removed by a reset comes back under a new id, so an    *)
(* account may have several ids.                                           *)
(***************************************************************************)
EXTENDS Offers

CONSTANTS o, g, h

OwnerAndGuest  == [p \in Player |-> IF p = 2 THEN g ELSE o]

(* A bound on what is explored.                                            *)
NoSockets == sockets = {}
=============================================================================
