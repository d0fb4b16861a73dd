---------------------------- MODULE MCDeadlines ----------------------------
(***************************************************************************)
(* What must end.  Two models that share no state: the calls of language   *)
(* models (ModelCalls), and a workshop without websockets (Workshop), in   *)
(* which players come through the join endpoint and drop out when the      *)
(* session is reloaded.  A behaviour moves one of them and leaves the      *)
(* other in an initial state.                                              *)
(***************************************************************************)
EXTENDS ModelCalls

CONSTANTS o, g, h, NoOne, JudgeRun

VARIABLES part, session, cached, stored, sockets, rows, leaving, timer, judges

hostVars == <<session, cached, stored, sockets, rows, leaving, timer, judges>>

W == INSTANCE Workshop WITH
       Player <- 1..2, Account <- {o, g, h}, Owner <- o,
       AccountOf <- [p \in 1..2 |-> IF p = 2 THEN g ELSE o], MaxGames <- 1

(* A pool with a keyless entry to be left out, none at all, and one with   *)
(* which the server does not start.                                        *)
Environments ==
  {[judge |-> <<"keyless", "vertex", "key">>, image |-> <<"vertex", "key">>, project |-> TRUE],
   [judge |-> <<>>, image |-> <<"keyless">>, project |-> FALSE],
   [judge |-> <<>>, image |-> <<"vertex">>, project |-> FALSE]}

PartInit ==
  /\ Init /\ W!Init
  /\ \/ part = "calls" /\ session.players = {}
     \/ part = "workshop" /\ pool["image"] = <<>>
PartNext ==
  \/ part = "calls" /\ Next /\ UNCHANGED <<part, hostVars>>
  \/ part = "workshop" /\ W!Next /\ sockets' = {} /\ UNCHANGED <<part, vars>>

InWorkshop(A) == part = "workshop" /\ A /\ UNCHANGED <<part, vars>>
FairParts ==
  /\ \A j \in Job : WF_<<part, vars, hostVars>>(part = "calls" /\ Proceed(j)
                                                /\ UNCHANGED <<part, hostVars>>)
  /\ WF_<<part, vars, hostVars>>(InWorkshop(W!TimePasses))
  /\ WF_<<part, vars, hostVars>>(InWorkshop(W!AdvanceOverduePhase))
  /\ WF_<<part, vars, hostVars>>(InWorkshop(W!JudgeStep))
FairSpec == PartInit /\ [][PartNext]_<<part, vars, hostVars>> /\ FairParts

(* Permits, queue and pool add up, and a call is given up for failures     *)
(* only after every provider has failed as often as it is allowed to.      *)
CallsInOrder == TypeOK /\ GivenUpAfterAll

(* A timed phase of a session in the cache ends, with or without its host  *)
(* and players, with notes missing or not.                                 *)
TimedPhasesEnd == W!TimedPhasesEnd
=============================================================================
