------------------------------ MODULE Realtime ------------------------------
(***************************************************************************)
(* The websockets of one player of one workshop, on several replicas: the  *)
(* local registries, the rows of realtime_connections and of               *)
(* retired_realtime_connections (fences), heartbeats, and what happens     *)
(* when the player attaches a second socket while the first is open, dies, *)
(* is closing, or is on another replica, and the attach then fails.        *)
(*                                                                         *)
(* An await on the store is a step; what a handler does between two of     *)
(* them is one, except where the order of two local changes matters.  The  *)
(* session's lease is taken to be exclusive, as WriteLease shows; what the *)
(* handlers save under it is in Workshop.                                  *)
(***************************************************************************)
EXTENDS Naturals, FiniteSets

CONSTANTS
  Conn,         \* connection ids; a socket is known by its id
  Replica,
  ReplicaOf,    \* the replica a socket is open on
  NoConn,       \* no connection
  Reattaching,  \* bound: the sockets whose client attaches a second time, once
  Clogged,      \* bound: the sockets that broadcasts find unable to take more
  MaxFaults     \* bound: store calls that fail and heartbeats that come late

ASSUME ConnAssumption    == NoConn \notin Conn /\ ReplicaOf \in [Conn -> Replica]
ASSUME BoundAssumption   == Reattaching \subseteq Conn /\ Clogged \subseteq Conn /\ MaxFaults \in Nat

VARIABLES
  pc,        \* where a socket's handler is
  again,     \* the sockets that have begun their second attach
  lease,     \* the socket whose attach holds the session's lease
  row,       \* the connection in the player's row of realtime_connections
  expired,   \* the row is older than its time to live
  fences,    \* connections in retired_realtime_connections
  registry,  \* the player's connection in each replica's SessionRegistry
  senders,   \* connections in their replica's realtime_senders
  beating,   \* connections with a heartbeat task
  asked,     \* connections whose writer or close signal will end their loop
  retired,   \* connections in their replica's retired_realtime_connections
  replaced,  \* whom the claim of the attach in flight replaced
  shadowed,  \* whom its registry entry replaced
  mail,      \* realtime_connection_replaced notifications under way
  displaced, \* history: whom a completed attach replaced, not yet leaving, not restored
  faulty,    \* history: connections a failed store call was about, or that another
             \*   replica restored after they had given up their row
  faults     \* history: number of faults

local == <<registry, senders, beating, asked, retired>>
store == <<row, expired, fences>>
flight == <<lease, replaced, shadowed>>
vars  == <<pc, again, local, store, flight, mail, displaced, faulty, faults>>

-----------------------------------------------------------------------------
(* State. *)

Stage == {"open", "waiting", "loaded", "claimed", "acking", "undone", "restoring",
          "rechecking", "attached", "stopping", "unregistering", "releasing", "unfencing",
          "leaving", "closed"}
MaybeConn == Conn \cup {NoConn}

Here(c)     == ReplicaOf[c]
Live(c)     == row = c /\ ~expired
GaveUpRow(c) == pc[c] \in {"unfencing", "leaving", "closed"}
Open(c)     == pc[c] \notin {"open", "closed"}
OneMore(S)  == faults < MaxFaults /\ faults' = faults + 1 /\ faulty' = faulty \cup S
NoFault     == UNCHANGED <<faults, faulty>>

(* A variant that takes every connection for one of this replica. *)
OfAnyReplica(c, t)  == t # NoConn
OfThisReplica(c, t) == t # NoConn /\ Here(t) = Here(c)

GoTo(c, stage) == pc' = [pc EXCEPT ![c] = stage]

Detached(reg, c) == [reg EXCEPT ![Here(c)] = IF @ = c THEN NoConn ELSE @]
Attached(reg, c) == [reg EXCEPT ![Here(c)] = c]

(* Asking a socket to close needs its sender; if the outbound queue is     *)
(* full, the sender is dropped and the close signal used instead.          *)
CloseLocal(c) ==
  IF c \in senders
    THEN asked' = asked \cup {c} /\ (senders' = senders \/ senders' = senders \ {c})
    ELSE UNCHANGED <<asked, senders>>

(* clear_local_realtime_connection, then close_local_connection. *)
Dismiss(c) ==
  /\ beating' = beating \ {c}
  /\ retired' = retired \cup {c}
  /\ CloseLocal(c)

-----------------------------------------------------------------------------
(* Attaching.  An attach that fails closes its socket: at once if it was   *)
(* the socket's first, through the whole of closing otherwise.             *)

(* A variant that forgets the row of an attached socket whose second       *)
(* attach failed.                                                          *)
AfterFailureClosed(c) == "closed"
AfterFailure(c) == IF c \in again THEN "stopping" ELSE "closed"
SendersAfterFailure(c) == IF c \in again THEN senders ELSE senders \ {c}

Fail(c) ==
  /\ GoTo(c, AfterFailure(c))
  /\ senders' = SendersAfterFailure(c)
  /\ lease' = IF lease = c THEN NoConn ELSE lease
  /\ replaced' = IF lease = c THEN NoConn ELSE replaced
  /\ shadowed' = IF lease = c THEN NoConn ELSE shadowed

Attach(c) ==
  /\ pc[c] = "open"
  /\ GoTo(c, "waiting")
  /\ senders' = senders \cup {c}
  /\ UNCHANGED <<again, registry, beating, asked, retired, store, flight, mail, displaced,
                 faulty, faults>>

AttachAgain(c) ==
  /\ pc[c] = "attached" /\ c \in Reattaching \ again
  /\ again' = again \cup {c}
  /\ GoTo(c, IF c \in retired THEN "stopping" ELSE "waiting")
  /\ UNCHANGED <<local, store, flight, mail, displaced, faulty, faults>>

(* The session's lease, and the reload of the session, which deletes rows  *)
(* that have expired.                                                      *)
Load(c) ==
  /\ pc[c] = "waiting" /\ lease = NoConn
  /\ lease' = c
  /\ GoTo(c, "loaded")
  /\ row' = IF expired THEN NoConn ELSE row
  /\ expired' = FALSE
  /\ UNCHANGED <<again, local, fences, replaced, shadowed, mail, displaced, faulty, faults>>

(* The identity is refused, the lease cannot be had, the workshop is gone. *)
Refuse(c) ==
  /\ pc[c] = "waiting"
  /\ Fail(c)
  /\ UNCHANGED <<again, registry, beating, asked, retired, store, mail, displaced, faulty,
                 faults>>

(* A variant that does not fence the connection it replaces. *)
ClaimUnfenced(c) ==
  LET other == IF row \notin {c, NoConn} /\ ~expired THEN row ELSE NoConn IN
  /\ pc[c] = "loaded" /\ c \notin fences
  /\ GoTo(c, "claimed")
  /\ row' = c /\ expired' = FALSE
  /\ replaced' = other
  /\ UNCHANGED <<again, local, fences, lease, shadowed, mail, displaced, faulty, faults>>

(* claim_realtime_connection: one transaction. *)
Claim(c) ==
  LET other == IF row \notin {c, NoConn} /\ ~expired THEN row ELSE NoConn IN
  /\ pc[c] = "loaded" /\ c \notin fences
  /\ GoTo(c, "claimed")
  /\ row' = c /\ expired' = FALSE
  /\ replaced' = other
  /\ fences' = fences \cup ({other} \ {NoConn})
  /\ UNCHANGED <<again, local, lease, shadowed, mail, displaced, faulty, faults>>

ClaimRefused(c) ==
  /\ pc[c] = "loaded"
  /\ (c \in fences /\ NoFault) \/ OneMore({c})
  /\ Fail(c)
  /\ UNCHANGED <<again, registry, beating, asked, retired, store, mail, displaced>>

(* The heartbeat of a replaced socket on this replica. *)
BeatOf(c) == IF OfThisReplica(c, replaced) THEN {replaced} ELSE {}

Enqueue(c) ==
  /\ pc[c] = "claimed"
  /\ GoTo(c, "acking")
  /\ beating' = beating \ BeatOf(c)
  /\ registry' = Attached(registry, c)
  /\ shadowed' = IF registry[Here(c)] = c THEN NoConn ELSE registry[Here(c)]
  /\ UNCHANGED <<again, senders, asked, retired, store, lease, replaced, mail, displaced,
                 faulty, faults>>

(* Whom the attach in flight has pushed out. *)
PushedOut == IF replaced # NoConn THEN replaced ELSE shadowed

(* The release of a connection's row, which may fail unnoticed: then the   *)
(* one it has pushed out cannot be restored.                               *)
ReleaseOwn(c) ==
  \/ row' = (IF row = c THEN NoConn ELSE row) /\ NoFault
  \/ row = c /\ row' = row /\ OneMore({c, PushedOut} \ {NoConn})

(* The client's queue takes no initial state. *)
EnqueueFails(c) ==
  /\ pc[c] = "claimed"
  /\ GoTo(c, "undone")
  /\ beating' = beating \ BeatOf(c)
  /\ ReleaseOwn(c)
  /\ UNCHANGED <<again, registry, senders, asked, retired, expired, fences, flight, mail,
                 displaced>>

(* The initial state is not sent, the socket was force-closed meanwhile,   *)
(* the lease is lost or the player's return cannot be saved.               *)
AttachFails(c) ==
  /\ pc[c] = "acking"
  /\ GoTo(c, "undone")
  /\ ReleaseOwn(c)
  /\ beating' = beating \ {c}
  /\ registry' = Detached(registry, c)
  /\ UNCHANGED <<again, senders, asked, retired, expired, fences, flight, mail, displaced>>

(* restore_replaced_registration *)
NothingToRestore(c) ==
  PushedOut # NoConn => OfThisReplica(c, PushedOut) /\ PushedOut \notin senders

GiveUp(c) ==
  /\ pc[c] = "undone" /\ NothingToRestore(c)
  /\ Fail(c)
  /\ UNCHANGED <<again, registry, beating, asked, retired, store, mail, displaced, faulty,
                 faults>>

BeginRestore(c) ==
  /\ pc[c] = "undone" /\ ~NothingToRestore(c)
  /\ GoTo(c, "restoring")
  /\ UNCHANGED <<again, local, store, flight, mail, displaced, faulty, faults>>

(* A variant that restores the row and leaves the fence standing. *)
LiftNoFence(t) == fences' = fences
LiftFence(t)   == fences' = fences \ {t}

(* A variant that restores the row but not the heartbeat. *)
RevivedRow(c, t) == registry' = [registry EXCEPT ![Here(c)] = t] /\ UNCHANGED beating
Revived(c, t)    == registry' = [registry EXCEPT ![Here(c)] = t] /\ beating' = beating \cup {t}

(* restore_realtime_connection, one transaction, and what follows locally. *)
Restore(c) ==
  LET t == PushedOut IN
  /\ pc[c] = "restoring"
  /\ row \in {NoConn, t} \/ expired
  /\ row' = t /\ expired' = FALSE
  /\ LiftFence(t)
  /\ displaced' = displaced \ {t}
  /\ faulty' = faulty \cup {d \in {t} : ~OfThisReplica(c, t) /\ GaveUpRow(t)}
  /\ IF OfThisReplica(c, t)
       THEN GoTo(c, "rechecking") /\ Revived(c, t) /\ UNCHANGED <<senders, flight>>
       ELSE Fail(c) /\ UNCHANGED <<registry, beating>>
  /\ UNCHANGED <<again, asked, retired, mail, faults>>

RestoreFails(c) ==
  /\ pc[c] = "restoring"
  /\ \/ row \notin {NoConn, PushedOut} /\ ~expired /\ NoFault
     \/ OneMore({PushedOut})
  /\ Fail(c)
  /\ UNCHANGED <<again, registry, beating, asked, retired, store, mail, displaced>>

(* A variant that does not look whether the restored socket is still there. *)
RecheckNothing(c) ==
  /\ pc[c] = "rechecking"
  /\ UNCHANGED <<beating, registry, row, faulty, faults>>
  /\ Fail(c)
  /\ UNCHANGED <<again, asked, retired, expired, fences, mail, displaced>>

(* The restored socket may have begun to close meanwhile. *)
Recheck(c) ==
  LET t == PushedOut IN
  /\ pc[c] = "rechecking"
  /\ IF t \in senders
       THEN UNCHANGED <<beating, registry, row, faulty, faults>>
       ELSE /\ beating' = beating \ {t}
            /\ registry' = Detached(registry, t)
            /\ ReleaseOwn(t)
  /\ Fail(c)
  /\ UNCHANGED <<again, asked, retired, expired, fences, mail, displaced>>

(* The attach succeeds; a socket it replaced is sent away, on this replica *)
(* at once, on another by the notification, which may be lost.             *)
Complete(c) ==
  LET t == replaced IN
  /\ pc[c] = "acking" /\ registry[Here(c)] = c
  /\ GoTo(c, "attached")
  /\ lease' = NoConn /\ replaced' = NoConn /\ shadowed' = NoConn
  /\ beating' = (beating \ BeatOf(c)) \cup {c}
  /\ displaced' = displaced \cup {d \in {t} \ {NoConn} : pc[d] \notin {"leaving", "closed"}}
  /\ mail' \in {mail, mail \cup ({t} \ {NoConn})}
  /\ IF BeatOf(c) # {}
       THEN retired' = retired \cup {t} /\ CloseLocal(t)
       ELSE UNCHANGED <<retired, senders, asked>>
  /\ UNCHANGED <<again, registry, store, faulty, faults>>

(* A broadcast, a notice or a timer finds that a registered socket takes   *)
(* nothing more: its queue is full, or its sender is gone already.         *)
ForceClose(c) ==
  /\ registry[Here(c)] = c /\ c \in Clogged
  /\ senders' = senders \ {c} /\ asked' = asked \cup (senders \cap {c})
  /\ registry' = Detached(registry, c)
  /\ beating' = beating \ {c}
  /\ UNCHANGED <<pc, again, retired, store, flight, mail, displaced, faulty, faults>>

Deliver(c) ==
  /\ c \in mail /\ mail' = mail \ {c}
  /\ Dismiss(c)
  /\ registry' = Detached(registry, c)
  /\ UNCHANGED <<pc, again, store, flight, displaced, faulty, faults>>

-----------------------------------------------------------------------------
(* Heartbeats and expiry. *)

(* A heartbeat that finds its row fresh renews it: nothing to be seen      *)
(* here.  One that does not, or cannot tell, closes its socket and ends.   *)
BeatFails(c) ==
  /\ c \in beating
  /\ (~Live(c) /\ NoFault) \/ (Live(c) /\ OneMore({c}))
  /\ Dismiss(c)
  /\ registry' = Detached(registry, c)
  /\ UNCHANGED <<pc, again, store, flight, mail, displaced>>

(* A row nobody renews grows old; so does one whose heartbeats come late. *)
Expire ==
  /\ row # NoConn /\ ~expired
  /\ expired' = TRUE
  /\ (row \notin beating /\ NoFault) \/ (row \in beating /\ OneMore({row}))
  /\ UNCHANGED <<pc, again, local, row, fences, flight, mail, displaced>>

-----------------------------------------------------------------------------
(* Closing: the client leaves, or the socket was asked to. *)

Close(c) ==
  /\ pc[c] = "attached"
  /\ GoTo(c, "stopping")
  /\ UNCHANGED <<again, local, store, flight, mail, displaced, faulty, faults>>

StopBeating(c) ==
  /\ pc[c] = "stopping"
  /\ GoTo(c, "unregistering")
  /\ beating' = beating \ {c}
  /\ UNCHANGED <<again, registry, senders, asked, retired, store, flight, mail, displaced,
                 faulty, faults>>

Unregister(c) ==
  /\ pc[c] = "unregistering"
  /\ GoTo(c, "releasing")
  /\ senders' = senders \ {c}
  /\ UNCHANGED <<again, registry, beating, asked, retired, store, flight, mail, displaced,
                 faulty, faults>>

(* sync_ws_disconnect: the row first; a failed release counts as none. *)
ReleaseRow(c) ==
  /\ pc[c] = "releasing"
  /\ \/ /\ row = c /\ row' = NoConn /\ NoFault
        /\ GoTo(c, "leaving") /\ registry' = Detached(registry, c)
     \/ /\ (row # c /\ NoFault) \/ OneMore({c})
        /\ GoTo(c, "unfencing") /\ UNCHANGED <<row, registry>>
  /\ UNCHANGED <<again, senders, beating, asked, retired, expired, fences, flight, mail,
                 displaced>>

Forget(c) == GoTo(c, "closed") /\ retired' = retired \ {c}

(* A variant that takes no notice of the fence. *)
TakeNoFence(c) ==
  /\ pc[c] = "unfencing"
  /\ NoFault /\ UNCHANGED fences
  /\ IF registry[Here(c)] = c THEN GoTo(c, "leaving") /\ UNCHANGED retired ELSE Forget(c)
  /\ registry' = Detached(registry, c)
  /\ UNCHANGED <<again, senders, beating, asked, row, expired, flight, mail, displaced>>

(* A fenced connection was replaced, and its close is nobody's leaving.    *)
(* One without row and fence leaves if the registry still knows it.        *)
TakeFence(c) ==
  /\ pc[c] = "unfencing"
  /\ \/ /\ c \in fences /\ NoFault
        /\ fences' = fences \ {c}
        /\ Forget(c)
     \/ /\ (c \notin fences /\ NoFault) \/ OneMore({c})
        /\ UNCHANGED fences
        /\ IF registry[Here(c)] = c THEN GoTo(c, "leaving") /\ UNCHANGED retired ELSE Forget(c)
  /\ registry' = Detached(registry, c)
  /\ UNCHANGED <<again, senders, beating, asked, row, expired, flight, mail, displaced>>

(* The lease is acquired and the player shown as disconnected, or it is    *)
(* not and the close ends there; in both cases the socket is gone.         *)
Leave(c) ==
  /\ pc[c] = "leaving"
  /\ Forget(c)
  /\ UNCHANGED <<again, registry, senders, beating, asked, store, flight, mail, displaced,
                 faulty, faults>>

(* A replica stops: its sockets and its memory are gone, rows and fences   *)
(* stay.                                                                   *)
Crash(r) ==
  LET gone == {c \in Conn : Here(c) = r} IN
  /\ \E c \in gone : Open(c)
  /\ pc' = [c \in Conn |-> IF c \in gone THEN "closed" ELSE pc[c]]
  /\ senders' = senders \ gone /\ beating' = beating \ gone
  /\ asked' = asked \ gone /\ retired' = retired \ gone
  /\ registry' = [registry EXCEPT ![r] = NoConn]
  /\ mail' = mail \ gone
  /\ IF lease \in gone THEN lease' = NoConn /\ replaced' = NoConn /\ shadowed' = NoConn
                       ELSE UNCHANGED flight
  /\ UNCHANGED <<again, store, displaced, faulty, faults>>

-----------------------------------------------------------------------------
(* The specification. *)

Init ==
  /\ pc = [c \in Conn |-> "open"] /\ again = {}
  /\ lease = NoConn /\ replaced = NoConn /\ shadowed = NoConn
  /\ row = NoConn /\ expired = FALSE /\ fences = {}
  /\ registry = [r \in Replica |-> NoConn]
  /\ senders = {} /\ beating = {} /\ asked = {} /\ retired = {}
  /\ mail = {} /\ displaced = {} /\ faulty = {} /\ faults = 0

AttachStep(c) ==
  \/ Load(c) \/ Refuse(c) \/ Claim(c) \/ ClaimRefused(c)
  \/ Enqueue(c) \/ EnqueueFails(c) \/ AttachFails(c)
  \/ GiveUp(c) \/ BeginRestore(c) \/ Restore(c) \/ RestoreFails(c) \/ Recheck(c)
  \/ Complete(c)

CloseStep(c) ==
  \/ StopBeating(c) \/ Unregister(c) \/ ReleaseRow(c) \/ TakeFence(c) \/ Leave(c)

Next ==
  \/ \E c \in Conn : \/ Attach(c) \/ AttachAgain(c) \/ AttachStep(c) \/ Close(c) \/ CloseStep(c)
                     \/ ForceClose(c) \/ Deliver(c) \/ BeatFails(c)
  \/ Expire
  \/ \E r \in Replica : Crash(r)

Spec == Init /\ [][Next]_vars

-----------------------------------------------------------------------------
(* Properties. *)

(* Every variable keeps its type, and only an attach under the lease has   *)
(* something to take back.                                                 *)
TypeOK ==
  /\ pc \in [Conn -> Stage] /\ again \subseteq Reattaching
  /\ {lease, row, replaced, shadowed} \subseteq MaybeConn /\ expired \in BOOLEAN
  /\ registry \in [Replica -> MaybeConn]
  /\ \A r \in Replica : registry[r] # NoConn => Here(registry[r]) = r
  /\ {fences, senders, beating, asked, retired, mail, displaced, faulty} \subseteq SUBSET Conn
  /\ faults \in 0 .. MaxFaults
  /\ lease = NoConn => replaced = NoConn /\ shadowed = NoConn
  /\ \A c \in Conn : lease = c <=>
       pc[c] \in {"loaded", "claimed", "acking", "undone", "restoring", "rechecking"}

Settled(c) == pc[c] = "attached" /\ c \notin asked /\ lease = NoConn

(* The socket that holds the player's row hears what is broadcast: it is   *)
(* in its replica's registry and is not retired, however many attaches     *)
(* have come and failed, unless it is about to be closed.                  *)
OwnerHears == \A c \in Conn :
  Settled(c) /\ Live(c) =>
    registry[Here(c)] = c /\ c \in senders /\ c \notin retired \cup fences

(* No open socket is left without a heartbeat, which would let it linger   *)
(* without row and without broadcasts; of two sockets, wherever they are   *)
(* and whatever notification is lost, the one without the row is closed by *)
(* its next heartbeat.  That holds also for one whose heartbeat was        *)
(* stopped for an attach that then failed, unless the store failed in      *)
(* restoring it or in releasing the row that stood in its way.             *)
NobodyUnwatched == \A c \in Conn : Settled(c) => c \in beating \cup faulty

(* A socket another one replaced never goes on to show its player as       *)
(* disconnected, whatever is still under way when it closes, unless the    *)
(* store failed it.                                                        *)
ReplacedLeaveQuietly == \A c \in displaced \ faulty : pc[c] # "leaving"

(* A row left behind by a closed socket, a crash or a restore that came    *)
(* too late is not renewed by anybody, so it expires and the player does   *)
(* not stay connected.  Two exceptions are real: the store failed to       *)
(* release the row, or another replica, which cannot know, restored one    *)
(* that had given it up, and whose heartbeat a failed attach had revived.  *)
GhostsUnfed == \A c \in Conn \ faulty :
  pc[c] = "closed" /\ Live(c) /\ lease = NoConn => c \notin beating
=============================================================================
