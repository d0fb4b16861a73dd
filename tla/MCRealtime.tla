----------------------------- MODULE MCRealtime -----------------------------
(***************************************************************************)
(* Instance of Realtime: two sockets on one replica and one on another.    *)
(***************************************************************************)
EXTENDS Realtime, TLC

CONSTANTS a1, a2, b1, ra, rb

Placement == [c \in Conn |-> IF c = b1 THEN rb ELSE ra]

(* The two sockets on one replica may be exchanged. *)
Twins == Permutations({a1, a2})
=============================================================================
