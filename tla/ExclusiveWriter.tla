--------------------------- MODULE ExclusiveWriter ---------------------------
(***************************************************************************)
(* What a session's write lease promises, without rows, clocks or renewal: *)
(* writers enter and leave.  Two writers of one replica are never inside   *)
(* together.  Two that hold the lease are not inside together either, on   *)
(* any replicas, unless something took longer than the lease allows for.   *)
(***************************************************************************)
EXTENDS Naturals

CONSTANTS
  Writer,     \* whoever may write the session
  Replica,
  ReplicaOf,  \* the replica a writer runs on
  Unleased    \* the writers that never ask for the lease

VARIABLES
  inside,     \* the writers that may be writing
  late        \* something took too long

state == <<inside, late>>

Init == inside = {} /\ late = FALSE

Neighbours(w) == {v \in Writer : ReplicaOf[v] = ReplicaOf[w]}

Enter(w) ==
  /\ inside \cap Neighbours(w) = {}
  /\ late \/ w \in Unleased \/ inside \subseteq Unleased
  /\ inside' = inside \cup {w}
  /\ UNCHANGED late

Leave(S) == inside' = inside \ S /\ UNCHANGED late

Excuse == late' = TRUE /\ UNCHANGED inside

Next ==
  \/ \E w \in Writer : Enter(w)
  \/ \E S \in SUBSET Writer : Leave(S)
  \/ Excuse

Spec == Init /\ [][Next]_state
=============================================================================
