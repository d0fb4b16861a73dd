--------------------------- MODULE RealtimeProofs ---------------------------
(***************************************************************************)
(* What the handlers of a player's sockets keep true, for any number of    *)
(* sockets and replicas and any number of faults: the types, and the four  *)
(* properties the run realtime checks.                                     *)
(*                                                                         *)
(* None of them is inductive: each says how things stand when no attach is *)
(* under way, and follows from what the attach in flight has undone so far *)
(* and from whom it would have to restore.  The parts of RInv below say    *)
(* that of every moment.                                                   *)
(***************************************************************************)
EXTENDS Realtime, TLAPS

InFlight == {"loaded", "claimed", "acking", "undone", "restoring", "rechecking"}

(* The socket's loop has not yet given its sender away.                    *)
Early(c) == pc[c] \in InFlight \cup {"waiting", "attached", "stopping", "unregistering"}

(* A socket can be sent to until it unregisters, or its loop will end; and *)
(* one that has been retired has been asked to end.                        *)
EarlyCanBeAsked == \A c \in Conn :
  /\ c \in senders => Early(c)
  /\ Early(c) => c \in senders \cup asked /\ (c \in retired => c \in asked)

(* A socket in its first attach is known to nobody but the attach.         *)
FirstComer(c) == pc[c] = "open" \/ (c \notin again /\ pc[c] \in InFlight \cup {"waiting"})

FirstComersUnknown == \A c \in Conn : FirstComer(c) =>
  /\ c \notin beating \cup retired \cup mail /\ c \notin {replaced, shadowed}
  /\ pc[c] \in {"open", "waiting", "loaded"} => row # c /\ registry[Here(c)] # c

(* The row of a connection and its fence exclude each other.               *)
RowUnfenced == row \notin fences

(* Who has the row and is attached is in its replica's registry.           *)
RowRegistered == \A c \in Conn :
  row = c /\ pc[c] = "attached" /\ c \notin asked => registry[Here(c)] = c

(* The attach in flight: the row is its own until it gives it back, whom   *)
(* it replaced is fenced, and it restores nobody but whom it pushed out.   *)
FlightOf(d) ==
  /\ d \notin {replaced, shadowed}
  /\ shadowed # NoConn => Here(shadowed) = Here(d)
  /\ pc[d] = "loaded" => replaced = NoConn
  /\ pc[d] \in {"loaded", "claimed"} => shadowed = NoConn
  /\ pc[d] \in {"claimed", "acking"} => row \in {d, NoConn}
  /\ pc[d] \in {"undone", "restoring"} =>
       row = NoConn \/ (row = d /\ PushedOut \in faulty \cup {NoConn})
  /\ pc[d] \in {"restoring", "rechecking"} => PushedOut # NoConn
  /\ pc[d] = "rechecking" => OfThisReplica(d, PushedOut)

(* Whom the attach in flight replaced keeps its place on another replica,  *)
(* and is fenced until the attach has succeeded.                           *)
ReplacedBy(d) == \A t \in Conn :
  replaced = t =>
    /\ pc[t] = "attached" /\ t \notin asked /\ Here(t) # Here(d) => registry[Here(t)] = t
    /\ pc[d] \in {"claimed", "acking"} /\ pc[t] \notin {"leaving", "closed"} => t \in fences

FlightInv == \A d \in Conn : lease = d => FlightOf(d) /\ ReplacedBy(d)

(* The attach in flight has stopped the heartbeat of c, and will start it  *)
(* again or close c.                                                       *)
StoppedByFlight(c) == \E d \in Conn :
  /\ lease = d /\ pc[d] \in {"acking", "undone", "restoring"}
  /\ replaced = c /\ Here(c) = Here(d)

AttachedWatched == \A c \in Conn :
  pc[c] = "attached" /\ c \notin asked => c \in beating \cup faulty \/ StoppedByFlight(c)

(* Whom a completed attach displaced has its fence until it is closed.     *)
DisplacedFenced == \A c \in displaced :
  /\ pc[c] # "closed" => c \in fences
  /\ pc[c] = "leaving" => c \in faulty

(* The attach in flight has just restored c, and looks whether c is there. *)
BeingRechecked(c) == \E d \in Conn : lease = d /\ pc[d] = "rechecking" /\ PushedOut = c

GhostsRechecked == \A c \in Conn \ faulty :
  GaveUpRow(c) /\ row = c /\ c \in beating => BeingRechecked(c)

RInv ==
  /\ TypeOK /\ EarlyCanBeAsked /\ FirstComersUnknown /\ RowUnfenced /\ RowRegistered
  /\ FlightInv /\ AttachedWatched /\ DisplacedFenced /\ GhostsRechecked

-----------------------------------------------------------------------------
(* One lemma for each step. The parts of RInv a step can disturb come      *)
(* first, with the other parts they need; the last leaf of a lemma is of   *)
(* the parts the step leaves as they are or cannot break by itself.        *)

(* Attaching.                                                              *)

(* A new socket has a sender and, being unknown, is not yet retired.       *)
LEMMA AttachKeeps ==
  ASSUME RInv, NEW k \in Conn, Attach(k)
  PROVE  RInv'
<1> USE ConnAssumption, BoundAssumption DEF RInv, Attach, GoTo, local, store,
   flight, Here, OfThisReplica
<1>1. EarlyCanBeAsked'
  BY DEF EarlyCanBeAsked, Early, InFlight, FirstComersUnknown, FirstComer,
     TypeOK, MaybeConn
<1>2. TypeOK' /\ FirstComersUnknown' /\ RowUnfenced' /\ RowRegistered' /\
     FlightInv' /\ AttachedWatched' /\ DisplacedFenced' /\ GhostsRechecked'
  BY DEF TypeOK, Stage, MaybeConn, FirstComersUnknown, FirstComer, InFlight,
     RowUnfenced, RowRegistered, FlightInv, FlightOf, ReplacedBy, PushedOut,
     AttachedWatched, StoppedByFlight, DisplacedFenced, GhostsRechecked,
     BeingRechecked, GaveUpRow
<1>3. QED
  BY <1>1, <1>2 DEF RInv

(* A second attach begins from an attached socket and changes no table.    *)
LEMMA AttachAgainKeeps ==
  ASSUME RInv, NEW k \in Conn, AttachAgain(k)
  PROVE  RInv'
<1> USE ConnAssumption, BoundAssumption DEF RInv, AttachAgain, GoTo, local,
   store, flight, Here, OfThisReplica
<1>1. TypeOK' /\ EarlyCanBeAsked' /\ FirstComersUnknown' /\ RowUnfenced' /\
     RowRegistered' /\ FlightInv' /\ AttachedWatched' /\ DisplacedFenced'
     /\ GhostsRechecked'
  BY DEF TypeOK, Stage, MaybeConn, EarlyCanBeAsked, Early, InFlight,
     FirstComersUnknown, FirstComer, RowUnfenced, RowRegistered, FlightInv,
     FlightOf, ReplacedBy, PushedOut, AttachedWatched, StoppedByFlight,
     DisplacedFenced, GhostsRechecked, BeingRechecked, GaveUpRow
<1>2. QED
  BY <1>1 DEF RInv

(* Whoever takes the lease finds nothing left to restore by the attach     *)
(* before it; an expired row goes.                                         *)
LEMMA LoadKeeps ==
  ASSUME RInv, NEW k \in Conn, Load(k)
  PROVE  RInv'
<1> USE ConnAssumption, BoundAssumption DEF RInv, Load, GoTo, local, store,
   flight, Here, OfThisReplica
<1>1. TypeOK'
  BY DEF TypeOK, Stage, MaybeConn
<1>2. RowUnfenced'
  BY DEF RowUnfenced, TypeOK, MaybeConn
<1>3. FlightInv'
  BY DEF FlightInv, FlightOf, ReplacedBy, PushedOut, TypeOK, MaybeConn
<1>4. EarlyCanBeAsked' /\ FirstComersUnknown' /\ RowRegistered' /\
     AttachedWatched' /\ DisplacedFenced' /\ GhostsRechecked'
  BY DEF EarlyCanBeAsked, Early, InFlight, FirstComersUnknown, FirstComer,
     RowRegistered, AttachedWatched, StoppedByFlight, DisplacedFenced,
     GhostsRechecked, BeingRechecked, GaveUpRow, PushedOut
<1>5. QED
  BY <1>1, <1>2, <1>3, <1>4 DEF RInv

(* A socket turned away before it has the lease has no row and no          *)
(* heartbeat, unless this was its second attach, which goes through all of *)
(* closing.                                                                *)
LEMMA RefuseKeeps ==
  ASSUME RInv, NEW k \in Conn, Refuse(k)
  PROVE  RInv'
<1> USE ConnAssumption, BoundAssumption DEF RInv, Refuse, GoTo, Fail,
   AfterFailure, SendersAfterFailure, local, store, flight, Here,
   OfThisReplica
<1>1. EarlyCanBeAsked'
  BY DEF EarlyCanBeAsked, Early, InFlight, TypeOK, MaybeConn
<1>2. GhostsRechecked'
  BY DEF GhostsRechecked, BeingRechecked, GaveUpRow, PushedOut,
     FirstComersUnknown, FirstComer, InFlight
<1>3. TypeOK' /\ FirstComersUnknown' /\ RowUnfenced' /\ RowRegistered' /\
     FlightInv' /\ AttachedWatched' /\ DisplacedFenced'
  BY DEF TypeOK, Stage, MaybeConn, FirstComersUnknown, FirstComer, InFlight,
     RowUnfenced, RowRegistered, FlightInv, FlightOf, ReplacedBy, PushedOut,
     AttachedWatched, StoppedByFlight, DisplacedFenced
<1>4. QED
  BY <1>1, <1>2, <1>3 DEF RInv

-----------------------------------------------------------------------------
(* The claim, and an attach that fails after it.                           *)

(* The claim takes the row, fences whom it takes it from, and remembers    *)
(* whom. Whom it takes it from was in its registry (RowRegistered).        *)
LEMMA ClaimKeeps ==
  ASSUME RInv, NEW k \in Conn, Claim(k)
  PROVE  RInv'
<1> USE ConnAssumption, BoundAssumption DEF RInv, Claim, GoTo, local, store,
   flight, Here, OfThisReplica
<1>1. TypeOK'
  <2> USE DEF TypeOK, MaybeConn
  <2>1. pc' \in [Conn -> Stage] /\ lease = k
    BY DEF Stage
  <2>2. row' \in MaybeConn /\ replaced' \in MaybeConn /\ fences' \subseteq Conn
    OBVIOUS
  <2>3. \A c \in Conn : lease = c <=>
          pc'[c] \in {"loaded", "claimed", "acking", "undone", "restoring", "rechecking"}
    BY <2>1
  <2>4. lease \in MaybeConn /\ shadowed \in MaybeConn /\ lease # NoConn
    BY <2>1
  <2>5. {lease', row', replaced', shadowed'} \subseteq MaybeConn /\ expired' \in BOOLEAN
    BY <2>2, <2>4
  <2>6. QED
    BY <2>1, <2>2, <2>3, <2>4, <2>5
<1>2. FirstComersUnknown'
  BY DEF FirstComersUnknown, FirstComer, InFlight, TypeOK, MaybeConn
<1>3. FlightInv'
  BY DEF FlightInv, FlightOf, ReplacedBy, PushedOut, TypeOK, MaybeConn,
     RowRegistered
<1>4. AttachedWatched'
  BY DEF AttachedWatched, StoppedByFlight, TypeOK, MaybeConn
<1>5. EarlyCanBeAsked' /\ RowUnfenced' /\ RowRegistered' /\ DisplacedFenced'
     /\ GhostsRechecked'
  BY DEF EarlyCanBeAsked, Early, InFlight, RowUnfenced, RowRegistered,
     DisplacedFenced, GhostsRechecked, BeingRechecked, GaveUpRow, PushedOut
<1>6. QED
  BY <1>1, <1>2, <1>3, <1>4, <1>5 DEF RInv

(* As for Refuse; the lease is given back.                                 *)
LEMMA ClaimRefusedKeeps ==
  ASSUME RInv, NEW k \in Conn, ClaimRefused(k)
  PROVE  RInv'
<1> USE ConnAssumption, BoundAssumption DEF RInv, ClaimRefused, GoTo, Fail,
   AfterFailure, SendersAfterFailure, OneMore, NoFault, local, store, flight,
   Here, OfThisReplica
<1>1. EarlyCanBeAsked'
  BY DEF EarlyCanBeAsked, Early, InFlight, TypeOK, MaybeConn
<1>2. GhostsRechecked'
  BY DEF GhostsRechecked, BeingRechecked, GaveUpRow, PushedOut,
     FirstComersUnknown, FirstComer, InFlight
<1>3. TypeOK' /\ FirstComersUnknown' /\ RowUnfenced' /\ RowRegistered' /\
     FlightInv' /\ AttachedWatched' /\ DisplacedFenced'
  BY DEF TypeOK, Stage, MaybeConn, FirstComersUnknown, FirstComer, InFlight,
     RowUnfenced, RowRegistered, FlightInv, FlightOf, ReplacedBy, PushedOut,
     AttachedWatched, StoppedByFlight, DisplacedFenced
<1>4. QED
  BY <1>1, <1>2, <1>3 DEF RInv

(* The registry entry changes hands: the row is already the new socket's,  *)
(* so nobody attached loses an entry it needs; the heartbeat stopped is    *)
(* that of the socket replaced.                                            *)
LEMMA EnqueueKeeps ==
  ASSUME RInv, NEW k \in Conn, Enqueue(k)
  PROVE  RInv'
<1> USE ConnAssumption, BoundAssumption DEF RInv, Enqueue, GoTo, BeatOf,
   OfThisReplica, Attached, local, store, flight, Here
<1>1. TypeOK'
  <2>1. /\ registry' \in [Replica -> MaybeConn]
        /\ \A r \in Replica : registry'[r] # NoConn => ReplicaOf[registry'[r]] = r
    BY DEF TypeOK, MaybeConn
  <2>2. lease = k /\ shadowed' \in MaybeConn
    BY DEF TypeOK, MaybeConn
  <2>3. pc' \in [Conn -> Stage]
    BY DEF TypeOK, Stage
  <2>4. \A c \in Conn : lease' = c <=>
          pc'[c] \in {"loaded", "claimed", "acking", "undone", "restoring", "rechecking"}
    BY DEF TypeOK
  <2>5. beating' \in SUBSET Conn
    BY DEF TypeOK
  <2>6. QED
    BY <2>1, <2>2, <2>3, <2>4, <2>5 DEF TypeOK, MaybeConn
<1>2. FirstComersUnknown'
  <2>1. lease = k /\ registry[Here(k)] \in MaybeConn
    BY DEF TypeOK
  <2>2. ASSUME NEW c \in Conn, FirstComer(c)' PROVE c \notin {replaced', shadowed'}
    <3>1. CASE c = k
      BY <2>1, <3>1 DEF FlightInv, FlightOf
    <3>2. CASE c # k
      <4>1. FirstComer(c) /\ pc[c] \in {"open", "waiting"}
        BY <2>1, <2>2, <3>2 DEF TypeOK, FirstComer, InFlight
      <4>2. c # replaced /\ registry[Here(c)] # c
        BY <4>1 DEF FirstComersUnknown
      <4>3. registry[Here(k)] = c => Here(c) = Here(k)
        BY DEF TypeOK
      <4>4. QED
        BY <4>2, <4>3
    <3>3. QED
      BY <3>1, <3>2
  <2>3. ASSUME NEW c \in Conn, FirstComer(c)'
        PROVE  /\ c \notin beating' \cup retired' \cup mail'
               /\ pc'[c] \in {"open", "waiting", "loaded"} =>
                    row' # c /\ registry'[Here(c)] # c
    BY <2>1, <2>3 DEF FirstComersUnknown, FirstComer, InFlight, TypeOK
  <2>4. QED
    BY <2>2, <2>3 DEF FirstComersUnknown
<1>3. RowRegistered'
  BY DEF RowRegistered, TypeOK, MaybeConn, FlightInv, FlightOf, PushedOut
<1>4. FlightInv'
  <2>1. lease = k /\ lease' = k /\ pc' = [pc EXCEPT ![k] = "acking"] /\ pc'[k] = "acking"
    BY DEF TypeOK
  <2>2. FlightOf(k)'
    BY <2>1 DEF FlightInv, FlightOf, TypeOK
  <2>3. ReplacedBy(k)'
    BY <2>1 DEF FlightInv, ReplacedBy, TypeOK
  <2>4. QED
    BY <2>1, <2>2, <2>3 DEF FlightInv
<1>5. AttachedWatched'
  BY DEF AttachedWatched, StoppedByFlight, TypeOK, MaybeConn
<1>6. GhostsRechecked'
  BY DEF GhostsRechecked, BeingRechecked, GaveUpRow, PushedOut, TypeOK,
     MaybeConn
<1>7. EarlyCanBeAsked' /\ RowUnfenced' /\ DisplacedFenced'
  BY DEF EarlyCanBeAsked, Early, InFlight, RowUnfenced, DisplacedFenced
<1>8. QED
  BY <1>1, <1>2, <1>3, <1>4, <1>5, <1>6, <1>7 DEF RInv

(* The row is given back, or the failure is remembered with whom it keeps  *)
(* from being restored.                                                    *)
LEMMA EnqueueFailsKeeps ==
  ASSUME RInv, NEW k \in Conn, EnqueueFails(k)
  PROVE  RInv'
<1> USE ConnAssumption, BoundAssumption DEF RInv, EnqueueFails, GoTo, BeatOf,
   OfThisReplica, ReleaseOwn, OneMore, NoFault, local, store, flight, Here
<1>1. RowUnfenced'
  BY DEF RowUnfenced, TypeOK, MaybeConn
<1>2. AttachedWatched'
  BY DEF AttachedWatched, StoppedByFlight, TypeOK, MaybeConn
<1>3. TypeOK' /\ EarlyCanBeAsked' /\ FirstComersUnknown' /\ RowRegistered'
     /\ FlightInv' /\ DisplacedFenced' /\ GhostsRechecked'
  BY DEF TypeOK, Stage, MaybeConn, EarlyCanBeAsked, Early, InFlight,
     FirstComersUnknown, FirstComer, RowRegistered, FlightInv, FlightOf,
     ReplacedBy, PushedOut, DisplacedFenced, GhostsRechecked, BeingRechecked,
     GaveUpRow
<1>4. QED
  BY <1>1, <1>2, <1>3 DEF RInv

(* As for EnqueueFails, and the registry entry goes too.                   *)
LEMMA AttachFailsKeeps ==
  ASSUME RInv, NEW k \in Conn, AttachFails(k)
  PROVE  RInv'
<1> USE ConnAssumption, BoundAssumption DEF RInv, AttachFails, GoTo,
   ReleaseOwn, OneMore, NoFault, Detached, local, store, flight, Here,
   OfThisReplica
<1>1. TypeOK'
  <2>1. /\ registry' \in [Replica -> MaybeConn]
        /\ \A r \in Replica : registry'[r] # NoConn => ReplicaOf[registry'[r]] = r
    BY DEF TypeOK, MaybeConn
  <2>2. lease = k /\ row' \in MaybeConn
    BY DEF TypeOK, MaybeConn
  <2>3. pc' \in [Conn -> Stage]
    BY DEF TypeOK, Stage
  <2>4. \A c \in Conn : lease' = c <=>
          pc'[c] \in {"loaded", "claimed", "acking", "undone", "restoring", "rechecking"}
    BY DEF TypeOK
  <2>5. beating' \in SUBSET Conn /\ faulty' \in SUBSET Conn /\ faults' \in 0 .. MaxFaults
    BY DEF TypeOK, MaybeConn, PushedOut
  <2>6. QED
    BY <2>1, <2>2, <2>3, <2>4, <2>5 DEF TypeOK, MaybeConn
<1>2. RowUnfenced'
  BY DEF RowUnfenced, TypeOK, MaybeConn
<1>3. EarlyCanBeAsked' /\ FirstComersUnknown' /\ RowRegistered' /\
     FlightInv' /\ AttachedWatched' /\ DisplacedFenced' /\ GhostsRechecked'
  BY DEF EarlyCanBeAsked, Early, InFlight, FirstComersUnknown, FirstComer,
     RowRegistered, FlightInv, FlightOf, ReplacedBy, PushedOut,
     AttachedWatched, StoppedByFlight, DisplacedFenced, GhostsRechecked,
     BeingRechecked, GaveUpRow
<1>4. QED
  BY <1>1, <1>2, <1>3 DEF RInv

(* There is nobody to restore, or nobody who has a sender: then he has     *)
(* been asked to close, and needs no heartbeat.                            *)
LEMMA GiveUpKeeps ==
  ASSUME RInv, NEW k \in Conn, GiveUp(k)
  PROVE  RInv'
<1> USE ConnAssumption, BoundAssumption DEF RInv, GiveUp, GoTo, Fail,
   AfterFailure, SendersAfterFailure, NothingToRestore, local, store, flight,
   Here, OfThisReplica
<1>1. EarlyCanBeAsked'
  BY DEF EarlyCanBeAsked, Early, InFlight, TypeOK, MaybeConn
<1>2. AttachedWatched'
  <2>1. lease = k /\ pc'[k] # "attached"
    BY DEF TypeOK
  <2>2. ASSUME NEW c \in Conn, pc[c] = "attached", c \notin asked PROVE ~ StoppedByFlight(c)
    BY <2>1, <2>2 DEF StoppedByFlight, EarlyCanBeAsked, Early, PushedOut
  <2>3. QED
    BY <2>1, <2>2 DEF AttachedWatched, TypeOK
<1>3. GhostsRechecked'
  BY DEF GhostsRechecked, BeingRechecked, GaveUpRow, PushedOut,
     FirstComersUnknown, FirstComer, InFlight
<1>4. TypeOK' /\ FirstComersUnknown' /\ RowUnfenced' /\ RowRegistered' /\
     FlightInv' /\ DisplacedFenced'
  BY DEF TypeOK, Stage, MaybeConn, FirstComersUnknown, FirstComer, InFlight,
     RowUnfenced, RowRegistered, FlightInv, FlightOf, ReplacedBy, PushedOut,
     DisplacedFenced
<1>5. QED
  BY <1>1, <1>2, <1>3, <1>4 DEF RInv

(* The restore is begun only if somebody was pushed out.                   *)
LEMMA BeginRestoreKeeps ==
  ASSUME RInv, NEW k \in Conn, BeginRestore(k)
  PROVE  RInv'
<1> USE ConnAssumption, BoundAssumption DEF RInv, BeginRestore, GoTo,
   NothingToRestore, local, store, flight, Here, OfThisReplica
<1>1. TypeOK' /\ EarlyCanBeAsked' /\ FirstComersUnknown' /\ RowUnfenced' /\
     RowRegistered' /\ FlightInv' /\ AttachedWatched' /\ DisplacedFenced'
     /\ GhostsRechecked'
  BY DEF TypeOK, Stage, MaybeConn, EarlyCanBeAsked, Early, InFlight,
     FirstComersUnknown, FirstComer, RowUnfenced, RowRegistered, FlightInv,
     FlightOf, ReplacedBy, PushedOut, AttachedWatched, StoppedByFlight,
     DisplacedFenced, GhostsRechecked, BeingRechecked, GaveUpRow
<1>2. QED
  BY <1>1 DEF RInv

-----------------------------------------------------------------------------
(* Restoring whom a failed attach has pushed out.                          *)

(* The restored socket has its row, no fence, and on this replica its      *)
(* registry entry and heartbeat; on another it has kept its entry          *)
(* (ReplacedBy).                                                           *)
LEMMA RestoreKeeps ==
  ASSUME RInv, NEW k \in Conn, Restore(k)
  PROVE  RInv'
<1> USE ConnAssumption, BoundAssumption DEF RInv, Restore, GoTo, Fail,
   AfterFailure, SendersAfterFailure, LiftFence, Revived, local, store,
   flight, Here, OfThisReplica
<1>1. TypeOK'
  <2>1. lease = k /\ PushedOut \in Conn
    BY DEF TypeOK, FlightInv, FlightOf, PushedOut, MaybeConn
  <2>2. /\ registry' \in [Replica -> MaybeConn]
        /\ \A r \in Replica : registry'[r] # NoConn => ReplicaOf[registry'[r]] = r
    BY <2>1 DEF TypeOK, MaybeConn
  <2>3. /\ {lease', row', replaced', shadowed'} \subseteq MaybeConn
        /\ lease' = NoConn => replaced' = NoConn /\ shadowed' = NoConn
    BY <2>1 DEF TypeOK, MaybeConn
  <2>4. pc' \in [Conn -> Stage]
    BY DEF TypeOK, Stage
  <2>5. \A c \in Conn : lease' = c <=>
          pc'[c] \in {"loaded", "claimed", "acking", "undone", "restoring", "rechecking"}
    BY <2>1 DEF TypeOK
  <2>6. fences' \subseteq Conn /\ displaced' \subseteq Conn /\ expired' = FALSE
    BY DEF TypeOK
  <2>7. beating' \subseteq Conn /\ senders' \subseteq Conn /\ faulty' \subseteq Conn
    BY <2>1 DEF TypeOK
  <2>8. {fences', senders', beating', asked', retired', mail', displaced', faulty'}
          \subseteq SUBSET Conn
    BY <2>6, <2>7 DEF TypeOK
  <2> HIDE DEF RInv, Restore, Fail, Revived
  <2>9. QED
    BY <2>2, <2>3, <2>4, <2>5, <2>6, <2>8 DEF RInv, Restore, TypeOK
<1>2. EarlyCanBeAsked'
  BY DEF EarlyCanBeAsked, Early, InFlight, TypeOK, MaybeConn
<1>3. FirstComersUnknown'
  <2>1. lease = k /\ PushedOut \in Conn /\ PushedOut \in {replaced, shadowed}
    BY DEF TypeOK, FlightInv, FlightOf, PushedOut, MaybeConn
  <2>2. ASSUME NEW c \in Conn, FirstComer(c)' PROVE c # k => FirstComer(c)
    BY <2>1, <2>2 DEF TypeOK, FirstComer, InFlight
  <2>3. ~ FirstComer(PushedOut)
    BY <2>1 DEF FirstComersUnknown
  <2>4. ASSUME NEW c \in Conn, c # k, FirstComer(c)'
        PROVE  /\ c \notin beating' \cup retired' \cup mail' /\ c \notin {replaced', shadowed'}
               /\ row' # c
    BY <2>1, <2>2, <2>3, <2>4 DEF FirstComersUnknown
  <2>5. ASSUME NEW c \in Conn, c # k, FirstComer(c)', pc'[c] \in {"open", "waiting", "loaded"}
        PROVE  registry'[Here(c)] # c
    BY <2>1, <2>2, <2>3, <2>5 DEF FirstComersUnknown, TypeOK
  <2>6. ASSUME FirstComer(k)'
        PROVE  pc'[k] = "rechecking" /\ k \notin again /\ k # PushedOut
    BY <2>1, <2>6 DEF FirstComer, InFlight, TypeOK, FlightInv, FlightOf
  <2>7. ASSUME FirstComer(k)'
        PROVE  k \notin beating' \cup retired' \cup mail' /\ k \notin {replaced', shadowed'}
    BY <2>1, <2>6, <2>7 DEF FirstComersUnknown, FirstComer, InFlight, FlightInv, FlightOf
  <2>8. QED
    BY <2>4, <2>5, <2>6, <2>7 DEF FirstComersUnknown
<1>4. RowRegistered'
  BY DEF RowRegistered, TypeOK, MaybeConn, FlightInv, FlightOf, PushedOut,
     ReplacedBy
<1>5. FlightInv'
  BY DEF FlightInv, FlightOf, ReplacedBy, PushedOut, TypeOK, MaybeConn
<1>6. AttachedWatched'
  <2>1. lease = k /\ PushedOut \in Conn /\ pc'[k] # "attached"
    BY DEF TypeOK, FlightInv, FlightOf, PushedOut, MaybeConn
  <2>2. beating \subseteq beating' /\ faulty \subseteq faulty'
    OBVIOUS
  <2>3. ASSUME NEW c \in Conn, StoppedByFlight(c) PROVE c \in beating'
    BY <2>1, <2>3 DEF StoppedByFlight, PushedOut
  <2>4. QED
    BY <2>1, <2>2, <2>3 DEF AttachedWatched, TypeOK
<1>7. DisplacedFenced'
  BY DEF DisplacedFenced, TypeOK, MaybeConn
<1>8. GhostsRechecked'
  BY DEF GhostsRechecked, BeingRechecked, GaveUpRow, PushedOut, TypeOK,
     MaybeConn
<1>9. RowUnfenced'
  BY DEF RowUnfenced
<1>10. QED
  BY <1>1, <1>2, <1>3, <1>4, <1>5, <1>6, <1>7, <1>8, <1>9 DEF RInv

(* A restore that finds the row taken finds it the attach's own, whose     *)
(* release had failed; whom it cannot restore is faulty already.           *)
LEMMA RestoreFailsKeeps ==
  ASSUME RInv, NEW k \in Conn, RestoreFails(k)
  PROVE  RInv'
<1> USE ConnAssumption, BoundAssumption DEF RInv, RestoreFails, GoTo, Fail,
   AfterFailure, SendersAfterFailure, OneMore, NoFault, local, store, flight,
   Here, OfThisReplica
<1>1. TypeOK'
  BY DEF TypeOK, Stage, MaybeConn, FlightInv, FlightOf, PushedOut
<1>2. EarlyCanBeAsked'
  BY DEF EarlyCanBeAsked, Early, InFlight, TypeOK, MaybeConn
<1>3. AttachedWatched'
  BY DEF AttachedWatched, StoppedByFlight, FlightInv, FlightOf, PushedOut
<1>4. GhostsRechecked'
  BY DEF GhostsRechecked, BeingRechecked, GaveUpRow, PushedOut,
     FirstComersUnknown, FirstComer, InFlight
<1>5. FirstComersUnknown' /\ RowUnfenced' /\ RowRegistered' /\ FlightInv' /\
     DisplacedFenced'
  BY DEF FirstComersUnknown, FirstComer, InFlight, RowUnfenced, RowRegistered,
     FlightInv, FlightOf, ReplacedBy, PushedOut, DisplacedFenced
<1>6. QED
  BY <1>1, <1>2, <1>3, <1>4, <1>5 DEF RInv

(* Whoever is found without sender was asked to close or has unregistered: *)
(* nothing an attached socket needs is taken away, and no ghost is left a  *)
(* heartbeat.                                                              *)
LEMMA RecheckKeeps ==
  ASSUME RInv, NEW k \in Conn, Recheck(k)
  PROVE  RInv'
<1> USE ConnAssumption, BoundAssumption DEF RInv, Recheck, GoTo, Fail,
   AfterFailure, SendersAfterFailure, ReleaseOwn, Detached, OneMore, NoFault,
   local, store, flight, Here, OfThisReplica
<1>1. EarlyCanBeAsked'
  BY DEF EarlyCanBeAsked, Early, InFlight, TypeOK, MaybeConn
<1>2. FirstComersUnknown'
  <2>1. lease = k /\ PushedOut \in Conn /\ pc'[k] \in {"stopping", "closed"}
    BY DEF TypeOK, FlightInv, FlightOf, PushedOut, MaybeConn
  <2>2. ASSUME NEW c \in Conn, FirstComer(c)' PROVE c # k /\ FirstComer(c) /\ pc'[c] = pc[c]
    BY <2>1, <2>2 DEF TypeOK, FirstComer, InFlight
  <2>3. row' \in {row, NoConn} /\ beating' \subseteq beating
    BY <2>1
  <2>4. \A c \in Conn : registry'[Here(c)] = c => registry[Here(c)] = c
    <3>1. CASE PushedOut \in senders
      BY <3>1
    <3>2. CASE PushedOut \notin senders
      <4>1. registry' = Detached(registry, PushedOut)
        BY <3>2
      <4>2. QED
        BY <2>1, <4>1, ConnAssumption DEF TypeOK
    <3>3. QED
      BY <3>1, <3>2
  <2>5. QED
    BY <2>1, <2>2, <2>3, <2>4 DEF FirstComersUnknown
<1>3. RowUnfenced'
  BY DEF RowUnfenced, TypeOK, MaybeConn
<1>4. RowRegistered'
  <2>1. lease = k /\ PushedOut \in Conn /\ pc'[k] \in {"stopping", "closed"}
    BY DEF TypeOK, FlightInv, FlightOf, PushedOut, MaybeConn
  <2>2. ASSUME NEW c \in Conn, row' = c, pc'[c] = "attached", c \notin asked'
        PROVE  row = c /\ pc[c] = "attached" /\ c \notin asked /\ c \in senders
    BY <2>1, <2>2 DEF TypeOK, EarlyCanBeAsked, Early
  <2>3. \A c \in Conn : c \in senders /\ registry[Here(c)] = c => registry'[Here(c)] = c
    <3>1. CASE PushedOut \in senders
      BY <3>1
    <3>2. CASE PushedOut \notin senders
      <4>1. registry' = Detached(registry, PushedOut)
        BY <3>2
      <4>2. QED
        BY <2>1, <3>2, <4>1, ConnAssumption DEF TypeOK
    <3>3. QED
      BY <3>1, <3>2
  <2>4. QED
    BY <2>2, <2>3 DEF RowRegistered
<1>5. FlightInv'
  BY DEF FlightInv, FlightOf, ReplacedBy, PushedOut, TypeOK, MaybeConn
<1>6. AttachedWatched'
  BY DEF AttachedWatched, StoppedByFlight, EarlyCanBeAsked, Early, InFlight
<1>7. GhostsRechecked'
  BY DEF GhostsRechecked, BeingRechecked, GaveUpRow, PushedOut,
     EarlyCanBeAsked, Early, InFlight, FirstComersUnknown, FirstComer
<1>8. TypeOK' /\ DisplacedFenced'
  BY DEF TypeOK, Stage, MaybeConn, DisplacedFenced
<1>9. QED
  BY <1>1, <1>2, <1>3, <1>4, <1>5, <1>6, <1>7, <1>8 DEF RInv

-----------------------------------------------------------------------------
(* Success, notifications and heartbeats.                                  *)

(* Whom the attach replaced is fenced (ReplacedBy), so it can be           *)
(* displaced; if its heartbeat had been stopped it is asked to close.      *)
LEMMA CompleteKeeps ==
  ASSUME RInv, NEW k \in Conn, Complete(k)
  PROVE  RInv'
<1> USE ConnAssumption, BoundAssumption DEF RInv, Complete, GoTo, BeatOf,
   CloseLocal, local, store, flight, Here, OfThisReplica
<1>1. FirstComersUnknown'
  BY DEF FirstComersUnknown, FirstComer, InFlight, TypeOK, MaybeConn
<1>2. AttachedWatched'
  BY DEF AttachedWatched, StoppedByFlight, TypeOK, MaybeConn, EarlyCanBeAsked,
     Early, InFlight
<1>3. DisplacedFenced'
  BY DEF DisplacedFenced, TypeOK, MaybeConn, FlightInv, ReplacedBy
<1>4. GhostsRechecked'
  BY DEF GhostsRechecked, BeingRechecked, GaveUpRow, PushedOut, TypeOK,
     MaybeConn
<1>5. TypeOK' /\ EarlyCanBeAsked' /\ RowUnfenced' /\ RowRegistered' /\
     FlightInv'
  BY DEF TypeOK, Stage, MaybeConn, EarlyCanBeAsked, Early, InFlight,
     RowUnfenced, RowRegistered, FlightInv, FlightOf, ReplacedBy, PushedOut
<1>6. QED
  BY <1>1, <1>2, <1>3, <1>4, <1>5 DEF RInv

(* A notification takes a registry entry and a heartbeat away, and asks    *)
(* the socket to close, so it is not missed.                               *)
LEMMA DeliverKeeps ==
  ASSUME RInv, NEW k \in Conn, Deliver(k)
  PROVE  RInv'
<1> USE ConnAssumption, BoundAssumption DEF RInv, Deliver, GoTo, Dismiss,
   CloseLocal, Detached, local, store, flight, Here, OfThisReplica
<1>1. RowRegistered'
  BY DEF RowRegistered, EarlyCanBeAsked, Early, InFlight
<1>2. FlightInv'
  BY DEF FlightInv, FlightOf, ReplacedBy, PushedOut, EarlyCanBeAsked, Early,
     InFlight
<1>3. AttachedWatched'
  BY DEF AttachedWatched, StoppedByFlight, EarlyCanBeAsked, Early, InFlight
<1>4. TypeOK' /\ EarlyCanBeAsked' /\ FirstComersUnknown' /\ RowUnfenced' /\
     DisplacedFenced' /\ GhostsRechecked'
  BY DEF TypeOK, Stage, MaybeConn, EarlyCanBeAsked, Early, InFlight,
     FirstComersUnknown, FirstComer, RowUnfenced, DisplacedFenced,
     GhostsRechecked, BeingRechecked, GaveUpRow, PushedOut
<1>5. QED
  BY <1>1, <1>2, <1>3, <1>4 DEF RInv

(* A heartbeat that gives up does the same.                                *)
LEMMA BeatFailsKeeps ==
  ASSUME RInv, NEW k \in Conn, BeatFails(k)
  PROVE  RInv'
<1> USE ConnAssumption, BoundAssumption DEF RInv, BeatFails, GoTo, Dismiss,
   CloseLocal, Detached, OneMore, NoFault, local, store, flight, Here,
   OfThisReplica
<1>1. RowRegistered'
  BY DEF RowRegistered, EarlyCanBeAsked, Early, InFlight
<1>2. FlightInv'
  BY DEF FlightInv, FlightOf, ReplacedBy, PushedOut, EarlyCanBeAsked, Early,
     InFlight
<1>3. AttachedWatched'
  BY DEF AttachedWatched, StoppedByFlight, EarlyCanBeAsked, Early, InFlight
<1>4. TypeOK' /\ EarlyCanBeAsked' /\ FirstComersUnknown' /\ RowUnfenced' /\
     DisplacedFenced' /\ GhostsRechecked'
  BY DEF TypeOK, Stage, MaybeConn, EarlyCanBeAsked, Early, InFlight,
     FirstComersUnknown, FirstComer, RowUnfenced, DisplacedFenced,
     GhostsRechecked, BeingRechecked, GaveUpRow, PushedOut
<1>5. QED
  BY <1>1, <1>2, <1>3, <1>4 DEF RInv

(* A broadcast that forces a socket closed leaves it asked to end.         *)
LEMMA ForceCloseKeeps ==
  ASSUME RInv, NEW k \in Conn, ForceClose(k)
  PROVE  RInv'
<1> USE ConnAssumption, BoundAssumption DEF RInv, ForceClose, GoTo, Detached, local, store, flight, Here,
   OfThisReplica
<1>1. RowRegistered'
  BY DEF RowRegistered, EarlyCanBeAsked, Early, InFlight
<1>2. FlightInv'
  BY DEF FlightInv, FlightOf, ReplacedBy, PushedOut, EarlyCanBeAsked, Early,
     InFlight
<1>3. AttachedWatched'
  BY DEF AttachedWatched, StoppedByFlight, EarlyCanBeAsked, Early, InFlight
<1>4. TypeOK' /\ EarlyCanBeAsked' /\ FirstComersUnknown' /\ RowUnfenced' /\
     DisplacedFenced' /\ GhostsRechecked'
  BY DEF TypeOK, Stage, MaybeConn, EarlyCanBeAsked, Early, InFlight,
     FirstComersUnknown, FirstComer, RowUnfenced, DisplacedFenced,
     GhostsRechecked, BeingRechecked, GaveUpRow, PushedOut
<1>5. QED
  BY <1>1, <1>2, <1>3, <1>4 DEF RInv

-----------------------------------------------------------------------------
(* Closing.                                                                *)

(* A socket that stops being attached.                                     *)
LEMMA CloseKeeps ==
  ASSUME RInv, NEW k \in Conn, Close(k)
  PROVE  RInv'
<1> USE ConnAssumption, BoundAssumption DEF RInv, Close, GoTo, local, store,
   flight, Here, OfThisReplica
<1>1. TypeOK' /\ EarlyCanBeAsked' /\ FirstComersUnknown' /\ RowUnfenced' /\
     RowRegistered' /\ FlightInv' /\ AttachedWatched' /\ DisplacedFenced'
     /\ GhostsRechecked'
  BY DEF TypeOK, Stage, MaybeConn, EarlyCanBeAsked, Early, InFlight,
     FirstComersUnknown, FirstComer, RowUnfenced, RowRegistered, FlightInv,
     FlightOf, ReplacedBy, PushedOut, AttachedWatched, StoppedByFlight,
     DisplacedFenced, GhostsRechecked, BeingRechecked, GaveUpRow
<1>2. QED
  BY <1>1 DEF RInv

(* A heartbeat stopped for good.                                           *)
LEMMA StopBeatingKeeps ==
  ASSUME RInv, NEW k \in Conn, StopBeating(k)
  PROVE  RInv'
<1> USE ConnAssumption, BoundAssumption DEF RInv, StopBeating, GoTo, local,
   store, flight, Here, OfThisReplica
<1>1. TypeOK' /\ EarlyCanBeAsked' /\ FirstComersUnknown' /\ RowUnfenced' /\
     RowRegistered' /\ FlightInv' /\ AttachedWatched' /\ DisplacedFenced'
     /\ GhostsRechecked'
  BY DEF TypeOK, Stage, MaybeConn, EarlyCanBeAsked, Early, InFlight,
     FirstComersUnknown, FirstComer, RowUnfenced, RowRegistered, FlightInv,
     FlightOf, ReplacedBy, PushedOut, AttachedWatched, StoppedByFlight,
     DisplacedFenced, GhostsRechecked, BeingRechecked, GaveUpRow
<1>2. QED
  BY <1>1 DEF RInv

(* The sender goes when the socket cannot be asked any more.               *)
LEMMA UnregisterKeeps ==
  ASSUME RInv, NEW k \in Conn, Unregister(k)
  PROVE  RInv'
<1> USE ConnAssumption, BoundAssumption DEF RInv, Unregister, GoTo, local,
   store, flight, Here, OfThisReplica
<1>1. EarlyCanBeAsked'
  BY DEF EarlyCanBeAsked, Early, InFlight, TypeOK, MaybeConn
<1>2. TypeOK' /\ FirstComersUnknown' /\ RowUnfenced' /\ RowRegistered' /\
     FlightInv' /\ AttachedWatched' /\ DisplacedFenced' /\ GhostsRechecked'
  BY DEF TypeOK, Stage, MaybeConn, FirstComersUnknown, FirstComer, InFlight,
     RowUnfenced, RowRegistered, FlightInv, FlightOf, ReplacedBy, PushedOut,
     AttachedWatched, StoppedByFlight, DisplacedFenced, GhostsRechecked,
     BeingRechecked, GaveUpRow
<1>3. QED
  BY <1>1, <1>2 DEF RInv

(* A socket on its way to leaving gives its row up, and one with a row has *)
(* no fence (RowUnfenced), so it was not displaced.                        *)
LEMMA ReleaseRowKeeps ==
  ASSUME RInv, NEW k \in Conn, ReleaseRow(k)
  PROVE  RInv'
<1> USE ConnAssumption, BoundAssumption DEF RInv, ReleaseRow, GoTo, OneMore,
   NoFault, Detached, local, store, flight, Here, OfThisReplica
<1>1. EarlyCanBeAsked'
  BY DEF EarlyCanBeAsked, Early, InFlight, TypeOK, MaybeConn
<1>2. FirstComersUnknown'
  BY DEF FirstComersUnknown, FirstComer, InFlight, TypeOK, MaybeConn
<1>3. RowUnfenced'
  BY DEF RowUnfenced, TypeOK, MaybeConn
<1>4. RowRegistered'
  BY DEF RowRegistered, TypeOK, MaybeConn
<1>5. FlightInv'
  BY DEF FlightInv, FlightOf, ReplacedBy, PushedOut, TypeOK, MaybeConn
<1>6. AttachedWatched'
  BY DEF AttachedWatched, StoppedByFlight, TypeOK, MaybeConn
<1>7. DisplacedFenced'
  BY DEF DisplacedFenced, TypeOK, MaybeConn, RowUnfenced
<1>8. GhostsRechecked'
  BY DEF GhostsRechecked, BeingRechecked, GaveUpRow, PushedOut, TypeOK,
     MaybeConn
<1>9. TypeOK'
  BY DEF TypeOK, Stage, MaybeConn
<1>10. QED
  BY <1>1, <1>2, <1>3, <1>4, <1>5, <1>6, <1>7, <1>8, <1>9 DEF RInv

(* A socket that finds its fence closes; one that does not was not         *)
(* displaced, or the store failed it.                                      *)
LEMMA TakeFenceKeeps ==
  ASSUME RInv, NEW k \in Conn, TakeFence(k)
  PROVE  RInv'
<1> USE ConnAssumption, BoundAssumption DEF RInv, TakeFence, GoTo, Forget,
   OneMore, NoFault, Detached, local, store, flight, Here, OfThisReplica
<1>1. EarlyCanBeAsked'
  BY DEF EarlyCanBeAsked, Early, InFlight, TypeOK, MaybeConn
<1>2. FirstComersUnknown'
  BY DEF FirstComersUnknown, FirstComer, InFlight, TypeOK, MaybeConn
<1>3. RowRegistered'
  BY DEF RowRegistered, TypeOK, MaybeConn
<1>4. FlightInv'
  BY DEF FlightInv, FlightOf, ReplacedBy, PushedOut, TypeOK, MaybeConn
<1>5. AttachedWatched'
  BY DEF AttachedWatched, StoppedByFlight, TypeOK, MaybeConn
<1>6. DisplacedFenced'
  BY DEF DisplacedFenced, TypeOK, MaybeConn
<1>7. GhostsRechecked'
  BY DEF GhostsRechecked, BeingRechecked, GaveUpRow, PushedOut, TypeOK,
     MaybeConn
<1>8. TypeOK' /\ RowUnfenced'
  BY DEF TypeOK, Stage, MaybeConn, RowUnfenced
<1>9. QED
  BY <1>1, <1>2, <1>3, <1>4, <1>5, <1>6, <1>7, <1>8 DEF RInv

(* The player is shown as gone; nothing else changes.                      *)
LEMMA LeaveKeeps ==
  ASSUME RInv, NEW k \in Conn, Leave(k)
  PROVE  RInv'
<1> USE ConnAssumption, BoundAssumption DEF RInv, Leave, GoTo, Forget, local,
   store, flight, Here, OfThisReplica
<1>1. TypeOK' /\ EarlyCanBeAsked' /\ FirstComersUnknown' /\ RowUnfenced' /\
     RowRegistered' /\ FlightInv' /\ AttachedWatched' /\ DisplacedFenced'
     /\ GhostsRechecked'
  BY DEF TypeOK, Stage, MaybeConn, EarlyCanBeAsked, Early, InFlight,
     FirstComersUnknown, FirstComer, RowUnfenced, RowRegistered, FlightInv,
     FlightOf, ReplacedBy, PushedOut, AttachedWatched, StoppedByFlight,
     DisplacedFenced, GhostsRechecked, BeingRechecked, GaveUpRow
<1>2. QED
  BY <1>1 DEF RInv

(* A row grows old by nobody's renewing it.                                *)
LEMMA ExpireKeeps ==
  ASSUME RInv, Expire
  PROVE  RInv'
<1> USE ConnAssumption, BoundAssumption DEF RInv, Expire, OneMore, NoFault, local, flight
<1>1. TypeOK'
  BY DEF TypeOK, MaybeConn
<1>2. EarlyCanBeAsked' /\ FirstComersUnknown' /\ RowUnfenced' /\ RowRegistered'
  BY DEF EarlyCanBeAsked, Early, FirstComersUnknown, FirstComer, RowUnfenced, RowRegistered
<1>3. FlightInv' /\ AttachedWatched'
  BY DEF FlightInv, FlightOf, ReplacedBy, PushedOut, OfThisReplica, AttachedWatched,
         StoppedByFlight
<1>4. DisplacedFenced' /\ GhostsRechecked'
  BY DEF DisplacedFenced, GhostsRechecked, BeingRechecked, GaveUpRow, PushedOut
<1>5. QED
  BY <1>1, <1>2, <1>3, <1>4 DEF RInv

(* A replica that stops takes with it all its sockets, and the attach in   *)
(* flight if it was there; whom that attach had stopped beating was on the *)
(* same replica.                                                           *)
LEMMA CrashKeeps ==
  ASSUME RInv, NEW s \in Replica, Crash(s)
  PROVE  RInv'
<1> DEFINE gone == {c \in Conn : Here(c) = s}
<1> USE ConnAssumption DEF RInv, Crash, store, flight, Here
<1>1. /\ \A c \in gone : pc'[c] = "closed"
      /\ \A c \in Conn \ gone : pc'[c] = pc[c]
  OBVIOUS
<1>2. /\ lease' = IF lease \in gone THEN NoConn ELSE lease
      /\ replaced' = IF lease \in gone THEN NoConn ELSE replaced
      /\ shadowed' = IF lease \in gone THEN NoConn ELSE shadowed
  OBVIOUS
<1>3. TypeOK'
  <2>1. pc' \in [Conn -> Stage]
    BY DEF TypeOK, Stage
  <2>2. /\ registry' \in [Replica -> MaybeConn]
        /\ \A r \in Replica : registry'[r] # NoConn => ReplicaOf[registry'[r]] = r
    BY DEF TypeOK, MaybeConn
  <2>3. \A c \in Conn : lease' = c <=>
          pc'[c] \in {"loaded", "claimed", "acking", "undone", "restoring", "rechecking"}
    BY <1>1, <1>2 DEF TypeOK
  <2>4. /\ {lease', row', replaced', shadowed'} \subseteq MaybeConn
        /\ lease' = NoConn => replaced' = NoConn /\ shadowed' = NoConn
    BY <1>2 DEF TypeOK, MaybeConn
  <2>5. {fences', senders', beating', asked', retired', mail', displaced', faulty'}
          \subseteq SUBSET Conn
    BY DEF TypeOK
  <2>6. QED
    BY <2>1, <2>2, <2>3, <2>4, <2>5 DEF TypeOK
<1> HIDE DEF gone
<1>4. EarlyCanBeAsked'
  BY <1>1 DEF EarlyCanBeAsked, Early, InFlight, TypeOK, gone
<1>5. FirstComersUnknown'
  BY <1>1, <1>2 DEF FirstComersUnknown, FirstComer, InFlight, TypeOK, gone
<1>6. RowUnfenced' /\ RowRegistered'
  BY <1>1 DEF RowUnfenced, RowRegistered, TypeOK, gone
<1>7. FlightInv'
  <2>1. ASSUME NEW d \in Conn, lease' = d
        PROVE  lease = d /\ d \notin gone /\ pc'[d] = pc[d] /\ UNCHANGED <<replaced, shadowed>>
    BY <1>1, <1>2, <2>1
  <2>2. ASSUME NEW d \in Conn, lease' = d PROVE FlightOf(d)'
    BY <2>1, <2>2 DEF FlightInv, FlightOf, PushedOut, OfThisReplica
  <2>3. ASSUME NEW d \in Conn, lease' = d PROVE ReplacedBy(d)'
    BY <2>1, <2>3, <1>1 DEF FlightInv, ReplacedBy, TypeOK, gone
  <2>4. QED
    BY <2>2, <2>3 DEF FlightInv
<1>8. AttachedWatched'
  <2>1. ASSUME NEW c \in Conn \ gone, StoppedByFlight(c) PROVE StoppedByFlight(c)'
    BY <1>1, <1>2, <2>1 DEF StoppedByFlight, gone
  <2>2. QED
    BY <1>1, <2>1 DEF AttachedWatched, gone
<1>9. DisplacedFenced'
  BY <1>1 DEF DisplacedFenced, TypeOK, gone
<1>10. GhostsRechecked'
  <2>1. ASSUME NEW c \in Conn \ gone, BeingRechecked(c) PROVE BeingRechecked(c)'
    BY <1>1, <1>2, <2>1 DEF BeingRechecked, FlightInv, FlightOf, PushedOut, OfThisReplica, gone
  <2>2. QED
    BY <1>1, <2>1 DEF GhostsRechecked, GaveUpRow, gone
<1>11. QED
  BY <1>3, <1>4, <1>5, <1>6, <1>7, <1>8, <1>9, <1>10 DEF RInv

-----------------------------------------------------------------------------
LEMMA InitKeeps == Init => RInv
<1> SUFFICES ASSUME Init PROVE RInv
  OBVIOUS
<1> USE ConnAssumption, BoundAssumption DEF Init
<1>1. TypeOK
  <2>1. pc \in [Conn -> Stage]
    BY DEF Stage
  <2>2. /\ registry \in [Replica -> MaybeConn]
        /\ \A r \in Replica : registry[r] = NoConn
    BY DEF MaybeConn
  <2>3. faults \in 0 .. MaxFaults /\ \A c \in Conn : lease # c /\ pc[c] = "open"
    OBVIOUS
  <2>4. QED
    BY <2>1, <2>2, <2>3 DEF TypeOK, MaybeConn
<1>2. EarlyCanBeAsked /\ FirstComersUnknown /\ RowUnfenced /\ RowRegistered
  BY DEF EarlyCanBeAsked, Early, InFlight, FirstComersUnknown, Here, RowUnfenced, RowRegistered
<1>3. FlightInv /\ AttachedWatched /\ DisplacedFenced /\ GhostsRechecked
  BY DEF FlightInv, AttachedWatched, DisplacedFenced, GhostsRechecked
<1>4. QED
  BY <1>1, <1>2, <1>3 DEF RInv

LEMMA StutterKeeps ==
  ASSUME RInv, UNCHANGED vars
  PROVE  RInv'
<1> USE DEF RInv, vars, local, store, flight
<1>1. TypeOK' /\ EarlyCanBeAsked' /\ FirstComersUnknown' /\ RowUnfenced' /\ RowRegistered'
  BY DEF TypeOK, EarlyCanBeAsked, Early, FirstComersUnknown, FirstComer, RowUnfenced,
         RowRegistered
<1>2. FlightInv' /\ AttachedWatched'
  BY DEF FlightInv, FlightOf, ReplacedBy, PushedOut, AttachedWatched, StoppedByFlight
<1>3. DisplacedFenced' /\ GhostsRechecked'
  BY DEF DisplacedFenced, GhostsRechecked, BeingRechecked, GaveUpRow, PushedOut
<1>4. QED
  BY <1>1, <1>2, <1>3 DEF RInv

LEMMA StepKeeps == RInv /\ [Next]_vars => RInv'
<1> SUFFICES ASSUME RInv, [Next]_vars PROVE RInv'
  OBVIOUS
<1>1. ASSUME NEW k \in Conn,
             Attach(k) \/ AttachAgain(k) \/ Load(k) \/ Refuse(k) \/ Claim(k) \/ ClaimRefused(k)
      PROVE  RInv'
  BY <1>1, AttachKeeps, AttachAgainKeeps, LoadKeeps, RefuseKeeps, ClaimKeeps, ClaimRefusedKeeps
<1>2. ASSUME NEW k \in Conn,
             Enqueue(k) \/ EnqueueFails(k) \/ AttachFails(k) \/ GiveUp(k) \/ BeginRestore(k)
      PROVE  RInv'
  BY <1>2, EnqueueKeeps, EnqueueFailsKeeps, AttachFailsKeeps, GiveUpKeeps, BeginRestoreKeeps
<1>3. ASSUME NEW k \in Conn,
             Restore(k) \/ RestoreFails(k) \/ Recheck(k) \/ Complete(k)
      PROVE  RInv'
  BY <1>3, RestoreKeeps, RestoreFailsKeeps, RecheckKeeps, CompleteKeeps
<1>4. ASSUME NEW k \in Conn, Close(k) \/ CloseStep(k)
      PROVE  RInv'
  BY <1>4, CloseKeeps, StopBeatingKeeps, UnregisterKeeps, ReleaseRowKeeps, TakeFenceKeeps,
     LeaveKeeps DEF CloseStep
<1>5. ASSUME NEW k \in Conn, ForceClose(k) \/ Deliver(k) \/ BeatFails(k)
      PROVE  RInv'
  BY <1>5, ForceCloseKeeps, DeliverKeeps, BeatFailsKeeps
<1>6. CASE Expire
  BY <1>6, ExpireKeeps
<1>7. ASSUME NEW s \in Replica, Crash(s) PROVE RInv'
  BY <1>7, CrashKeeps
<1>8. CASE UNCHANGED vars
  BY <1>8, StutterKeeps
<1>9. QED
  BY <1>1, <1>2, <1>3, <1>4, <1>5, <1>6, <1>7, <1>8 DEF Next, AttachStep

LEMMA RInvAlways == Spec => []RInv
  BY InitKeeps, StepKeeps, PTL DEF Spec

(* Whatever attaches, closings, faults and crashes interleave, a socket's  *)
(* handler, the stores and the registries keep their types; a registry     *)
(* knows only sockets of its replica; and the attach that holds the lease  *)
(* is the only one that is past taking it.                                 *)
THEOREM TypesKept == Spec => []TypeOK
<1>1. RInv => TypeOK
  BY DEF RInv
<1>2. QED
  BY RInvAlways, <1>1, PTL

(* The socket that holds the player's row, and that nobody has asked to    *)
(* close, is in its replica's registry with a sender, not retired and not  *)
(* fenced, once no attach is under way.                                    *)
THEOREM OwnersHear == Spec => []OwnerHears
<1>1. RInv => OwnerHears
  BY DEF RInv, OwnerHears, Settled, Live, EarlyCanBeAsked, Early, RowRegistered, RowUnfenced
<1>2. QED
  BY RInvAlways, <1>1, PTL

(* Every attached socket has a heartbeat that will find out when it has    *)
(* lost its row, unless the store failed it.                               *)
THEOREM NobodyGoesUnwatched == Spec => []NobodyUnwatched
<1>1. RInv => NobodyUnwatched
  BY ConnAssumption DEF RInv, NobodyUnwatched, Settled, AttachedWatched, StoppedByFlight
<1>2. QED
  BY RInvAlways, <1>1, PTL

(* Whom a completed attach has replaced does not show its player as gone.  *)
THEOREM TheReplacedLeaveQuietly == Spec => []ReplacedLeaveQuietly
<1>1. RInv => ReplacedLeaveQuietly
  BY DEF RInv, ReplacedLeaveQuietly, DisplacedFenced
<1>2. QED
  BY RInvAlways, <1>1, PTL

(* The row of a closed socket has no heartbeat to keep it young.           *)
THEOREM GhostsGoUnfed == Spec => []GhostsUnfed
<1>1. RInv => GhostsUnfed
  BY ConnAssumption DEF RInv, GhostsUnfed, GhostsRechecked, BeingRechecked, GaveUpRow, Live
<1>2. QED
  BY RInvAlways, <1>1, PTL

=============================================================================
