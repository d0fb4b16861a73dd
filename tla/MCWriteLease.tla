----------------------------- MODULE MCWriteLease -----------------------------
(***************************************************************************)
(* Instances of WriteLease: two replicas, so that the row matters, with    *)
(* two handlers on the first one, so that the mutex does.                  *)
(***************************************************************************)
EXTENDS WriteLease

CONSTANTS r1, r2, h1, h2, h3, t1

Where == [w \in Writer |-> IF w \in {h1, h2} THEN r1 ELSE r2]
=============================================================================
