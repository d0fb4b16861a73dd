---------------------------- MODULE MCDragonCare ----------------------------
(***************************************************************************)
(* Instance of DragonCare: a creator and a keeper, a day of six ticks and  *)
(* thresholds a game of a few actions can meet.  comeback, happiness 60    *)
(* and all amounts are the code's.                                         *)
(***************************************************************************)
EXTENDS DragonCare

CONSTANTS c, k

SmallThreshold == [
  steady |-> 3, noMistakes |-> 2, zen |-> 2, masher |-> 1, rests |-> 1, rhythm |-> 2,
  helicopter |-> 3, low |-> 45, comeback |-> 70, chaos |-> 2, perfect |-> 3 ]

(* Phase 1 is short: all but the awards and the clock start again after it. *)
FewTicks   == [p \in {"Phase1", "Phase2"} |-> IF p = "Phase1" THEN 2 ELSE 5]
FewActions == [p \in {"Phase1", "Phase2"} |-> IF p = "Phase1" THEN 2 ELSE 3]

(* Bound: only the dragon's owner comes and goes, and only while it matters. *)
OthersHere == Player \ {owner} \subseteq here /\ (InCare \/ here = Player)
=============================================================================
