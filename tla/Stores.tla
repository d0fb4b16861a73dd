------------------------------- MODULE Stores -------------------------------
(***************************************************************************)
(* The two stores of websocket connections, asked the same questions.  A   *)
(* server with DATABASE_URL keeps the rows in Postgres; one without, and   *)
(* every test of the server, keeps them in memory, in three maps.  Here    *)
(* sockets of one workshop attach, attach again, fail to, beat and close,  *)
(* each call is put to both stores, and their answers and rows compared.   *)
(*                                                                         *)
(* The stores are known to part in two ways.  A row older than its time to *)
(* live may be swept by one and not by the other, which shows when its     *)
(* socket closes or its workshop is deleted; and the store in memory       *)
(* restores a connection only if it is fenced, Postgres also if it is not. *)
(* Once an answer has differed in one of these ways the comparison ends.   *)
(*                                                                         *)
(* What the server does between its calls is in Realtime.                  *)
(***************************************************************************)
EXTENDS Naturals, FiniteSets

CONSTANTS
  Conn,       \* connection ids
  Player,
  Replica,
  ReplicaOf,  \* where a connection is open
  Seating,    \* the ways in which sockets may belong to players
  NoConn      \* no connection

VARIABLES
  table,     \* Postgres: rows of realtime_connections, retired_realtime_connections
  maps,      \* in memory: the two maps of connections, and the retired ones
  stage,     \* where a socket's handler is
  joined,    \* sockets that have attached
  pushed,    \* whom a socket that is attaching has pushed out
  registry,  \* each replica's connection of a player
  held,      \* the workshop has not been deleted
  playerOf,  \* whose socket a connection is, which does not change
  answers,   \* history: what the two stores answered last
  parted     \* history: they have answered differently, in a way known

sockets == <<stage, joined, pushed, registry, held, playerOf>>
vars    == <<table, maps, sockets, answers, parted>>

Age       == {"none", "fresh", "stale"}
MaybeConn == Conn \cup {NoConn}

Rows(ages)     == {c \in Conn : ages[c] # "none"}
Without(ages, S) == [c \in Conn |-> IF c \in S THEN "none" ELSE ages[c]]
Stale(ages)    == {c \in Conn : ages[c] = "stale"}
Refused        == {NoConn}
RivalsOf(c)    == {d \in Conn : playerOf[d] = playerOf[c]} \ {c}

-----------------------------------------------------------------------------
(* Postgres. *)

PgRenewed(t, c) == [t EXCEPT !.ages[c] = IF @ = "fresh" THEN "fresh" ELSE @]
PgRenew(t, c)   == t.ages[c] = "fresh"

(* What a claim does once it is past the fence; a row of the player is     *)
(* deleted and fenced.                                                     *)
PgTaken(t, c) ==
  LET kept     == Without(t.ages, Stale(t.ages))
      replaced == Rows(kept) \cap RivalsOf(c)
  IN  [store  |-> [ages   |-> [Without(kept, replaced) EXCEPT ![c] = "fresh"],
                   fences |-> t.fences \cup replaced],
       answer |-> replaced]

(* A claim that is refused is rolled back. *)
PgClaim(t, c) ==
  IF c \in t.fences THEN [store |-> t, answer |-> Refused] ELSE PgTaken(t, c)

(* Whether c is fenced does not matter. *)
PgRestore(t, c) ==
  LET kept == Without(t.ages, Stale(t.ages)) IN
  IF Rows(kept) \cap RivalsOf(c) # {}
    THEN [store |-> [t EXCEPT !.ages = kept], answer |-> FALSE]
    ELSE [store  |-> PgTaken([t EXCEPT !.fences = @ \ {c}], c).store, answer |-> TRUE]

PgRelease(t, c) ==
  [store |-> [t EXCEPT !.ages[c] = "none"], answer |-> c \in Rows(t.ages)]

PgTakeRetired(t, c) ==
  [store |-> [t EXCEPT !.fences = @ \ {c}], answer |-> c \in t.fences]

PgList(t) ==
  LET kept == Without(t.ages, Stale(t.ages)) IN
  [store |-> [t EXCEPT !.ages = kept], answer |-> Rows(kept)]

PgDelete(t) ==
  [store  |-> [ages |-> Without(t.ages, Conn), fences |-> t.fences \cup Rows(t.ages)],
   answer |-> Rows(t.ages)]

-----------------------------------------------------------------------------
(* In memory: connections_by_id (ages), connection_by_session_player       *)
(* (slot) and retired_realtime_connections (fences).                       *)

Vacated(slot, S) == [p \in Player |-> IF p \in {playerOf[c] : c \in S} THEN NoConn ELSE slot[p]]

Swept(m) == [m EXCEPT !.ages = Without(@, Stale(@)), !.slot = Vacated(@, Stale(m.ages))]

MemoryRenew(m, c) == m.ages[c] = "fresh"

MemoryTaken(m, c) ==
  LET before   == m.slot[playerOf[c]]
      replaced == ({before} \cap Rows(m.ages)) \ {c}
  IN  [store  |-> [ages   |-> [Without(m.ages, replaced) EXCEPT ![c] = "fresh"],
                   slot   |-> [m.slot EXCEPT ![playerOf[c]] = c],
                   fences |-> m.fences \cup replaced],
       answer |-> replaced]

(* A claim that is refused has swept. *)
MemoryClaim(m, c) ==
  IF c \in m.fences THEN [store |-> Swept(m), answer |-> Refused]
                    ELSE MemoryTaken(Swept(m), c)

MemoryRestore(m, c) ==
  LET s == Swept(m) IN
  IF s.slot[playerOf[c]] \in {c, NoConn} /\ c \in s.fences
    THEN [store |-> MemoryTaken([s EXCEPT !.fences = @ \ {c}], c).store, answer |-> TRUE]
    ELSE [store |-> s, answer |-> FALSE]

(* A variant that leaves the player's slot to the connection.              *)
MemoryReleaseById(m, c) ==
  [store |-> [m EXCEPT !.ages[c] = "none"], answer |-> c \in Rows(m.ages)]

MemoryRelease(m, c) ==
  [store  |-> [m EXCEPT !.ages[c] = "none",
                        !.slot    = Vacated(@, {c} \cap Rows(m.ages))],
   answer |-> c \in Rows(m.ages)]

MemoryTakeRetired(m, c) ==
  [store |-> [m EXCEPT !.fences = @ \ {c}], answer |-> c \in m.fences]

(* Reading takes no row away. *)
MemoryList(m) == [store |-> m, answer |-> Rows(m.ages) \ Stale(m.ages)]

MemoryDelete(m) ==
  [store  |-> [ages   |-> Without(m.ages, Conn),
               slot   |-> Vacated(m.slot, Rows(m.ages)),
               fences |-> m.fences \cup Rows(m.ages)],
   answer |-> Rows(m.ages)]

-----------------------------------------------------------------------------
(* A call put to both stores; known says that they are expected to differ. *)
Both(pg, memory, known) ==
  /\ ~parted
  /\ table' = pg.store /\ maps' = memory.store
  /\ answers' = <<pg.answer, memory.answer>>
  /\ parted' = known

(* Rows past their time that only one of the stores still has. *)
HalfSwept == {c \in Conn : {table.ages[c], maps.ages[c]} = {"stale", "none"}}

NoKnown     == FALSE
ReleaseOf(c) == Both(PgRelease(table, c), MemoryRelease(maps, c), c \in HalfSwept)

Here(c)      == <<ReplicaOf[c], playerOf[c]>>
Detached(c)  == [registry EXCEPT ![Here(c)] = IF @ = c THEN NoConn ELSE @]
HasSender(c) == stage[c] \notin {"new", "closing", "unfencing", "gone"}
Attaching(c) == stage[c] \in {"claimed", "acking", "undone", "rechecking"}
GoTo(c, s)   == stage' = [stage EXCEPT ![c] = s]

(* An attach that fails is the end of a socket: of a new one at once.      *)
Fail(c) ==
  /\ GoTo(c, IF c \in joined THEN "closing" ELSE "gone")
  /\ pushed' = [pushed EXCEPT ![c] = NoConn]

(* One socket of a replica attaches at a time; the session's lease, which  *)
(* would keep another replica's away, may have lapsed.                     *)
Claim(c) ==
  /\ held /\ stage[c] \in {"new", "on"}
  /\ \A d \in Conn : Attaching(d) => ReplicaOf[d] # ReplicaOf[c]
  /\ Both(PgClaim(table, c), MemoryClaim(maps, c), NoKnown)
  /\ IF c \in table.fences
       THEN Fail(c)
       ELSE /\ GoTo(c, "claimed")
            /\ \E t \in MaybeConn : /\ pushed' = [pushed EXCEPT ![c] = t]
                                    /\ {t} \ {NoConn} = PgClaim(table, c).answer
  /\ UNCHANGED <<joined, registry, held>>

Enqueue(c) ==
  /\ stage[c] = "claimed"
  /\ GoTo(c, "acking")
  /\ registry' = [registry EXCEPT ![Here(c)] = c]
  /\ pushed' = [pushed EXCEPT ![c] = IF @ = NoConn /\ registry[Here(c)] # c
                                        THEN registry[Here(c)] ELSE @]
  /\ UNCHANGED <<table, maps, joined, held, answers, parted>>

Attached(c) ==
  /\ stage[c] = "acking"
  /\ GoTo(c, "on")
  /\ joined' = joined \cup {c}
  /\ pushed' = [pushed EXCEPT ![c] = NoConn]
  /\ UNCHANGED <<table, maps, registry, held, answers, parted>>

(* The initial state cannot be sent, or the player's return not be saved.  *)
AttachFails(c) ==
  /\ stage[c] \in {"claimed", "acking"}
  /\ ReleaseOf(c)
  /\ GoTo(c, "undone")
  /\ registry' = IF stage[c] = "acking" THEN Detached(c) ELSE registry
  /\ UNCHANGED <<joined, pushed, held>>

GiveUp(c) ==
  /\ stage[c] = "undone"
  /\ pushed[c] # NoConn => ReplicaOf[pushed[c]] = ReplicaOf[c] /\ ~HasSender(pushed[c])
  /\ Fail(c)
  /\ UNCHANGED <<table, maps, joined, registry, held, answers, parted>>

Restore(c) ==
  LET t      == pushed[c]
      pg     == PgRestore(table, t)
      memory == MemoryRestore(maps, t)
      near   == ReplicaOf[t] = ReplicaOf[c]
  IN
  /\ stage[c] = "undone" /\ t # NoConn
  /\ near => HasSender(t)
  /\ Both(pg, memory, pg.answer /\ t \notin maps.fences)
  /\ IF pg.answer /\ near
       THEN /\ GoTo(c, "rechecking")
            /\ registry' = [registry EXCEPT ![Here(t)] = t]
            /\ UNCHANGED pushed
       ELSE Fail(c) /\ UNCHANGED registry
  /\ UNCHANGED <<joined, held>>

(* The restored socket may have closed meanwhile. *)
Recheck(c) ==
  /\ stage[c] = "rechecking"
  /\ IF HasSender(pushed[c])
       THEN UNCHANGED <<table, maps, registry, answers, parted>>
       ELSE ReleaseOf(pushed[c]) /\ registry' = Detached(pushed[c])
  /\ Fail(c)
  /\ UNCHANGED <<joined, held>>

Beat(c) ==
  /\ stage[c] = "on"
  /\ Both([store |-> table, answer |-> PgRenew(table, c)],
          [store |-> maps, answer |-> MemoryRenew(maps, c)], NoKnown)
  /\ stage' = IF PgRenew(table, c) THEN stage ELSE [stage EXCEPT ![c] = "closing"]
  /\ UNCHANGED <<joined, pushed, registry, held>>

(* The client goes, or the server closes a socket that has been replaced.  *)
Close(c) ==
  /\ stage[c] = "on"
  /\ GoTo(c, "closing")
  /\ UNCHANGED <<table, maps, joined, pushed, registry, held, answers, parted>>

Release(c) ==
  /\ stage[c] = "closing"
  /\ ReleaseOf(c)
  /\ IF PgRelease(table, c).answer
       THEN GoTo(c, "gone") /\ registry' = Detached(c)
       ELSE GoTo(c, "unfencing") /\ UNCHANGED registry
  /\ UNCHANGED <<joined, pushed, held>>

TakeRetired(c) ==
  /\ stage[c] = "unfencing"
  /\ Both(PgTakeRetired(table, c), MemoryTakeRetired(maps, c), NoKnown)
  /\ GoTo(c, "gone")
  /\ registry' = Detached(c)
  /\ UNCHANGED <<joined, pushed, held>>

(* A replica reloads the session. *)
List ==
  /\ Both(PgList(table), MemoryList(maps), NoKnown)
  /\ UNCHANGED sockets

(* The owner deletes the workshop. *)
Delete ==
  /\ held
  /\ Both(PgDelete(table), MemoryDelete(maps), HalfSwept # {})
  /\ held' = FALSE
  /\ UNCHANGED <<stage, joined, pushed, registry>>

Grown(ages, c) == [ages EXCEPT ![c] = IF @ = "fresh" THEN "stale" ELSE @]

(* A row reaches the end of its time to live. *)
Expire(c) ==
  /\ ~parted /\ table.ages[c] = "fresh"
  /\ table' = [table EXCEPT !.ages = Grown(@, c)]
  /\ maps'  = [maps EXCEPT !.ages = Grown(@, c)]
  /\ UNCHANGED <<sockets, answers, parted>>

-----------------------------------------------------------------------------
Init ==
  /\ table = [ages |-> [c \in Conn |-> "none"], fences |-> {}]
  /\ maps  = [ages |-> [c \in Conn |-> "none"], fences |-> {},
              slot |-> [p \in Player |-> NoConn]]
  /\ stage = [c \in Conn |-> "new"]
  /\ joined = {} /\ pushed = [c \in Conn |-> NoConn]
  /\ registry = [h \in Replica \X Player |-> NoConn]
  /\ held = TRUE
  /\ playerOf \in Seating
  /\ answers = <<TRUE, TRUE>>
  /\ parted = FALSE

Next ==
  /\ \/ \E c \in Conn :
          \/ Claim(c) \/ Enqueue(c) \/ Attached(c) \/ AttachFails(c)
          \/ GiveUp(c) \/ Restore(c) \/ Recheck(c)
          \/ Beat(c) \/ Close(c) \/ Release(c) \/ TakeRetired(c) \/ Expire(c)
     \/ List \/ Delete
  /\ UNCHANGED playerOf

Spec == Init /\ [][Next]_vars

-----------------------------------------------------------------------------
(* The stores answer alike, fence the same connections and have the same   *)
(* rows but for those past their time, until they part in a known way; and *)
(* the store in memory finds by player what it finds by id.                *)
StoresAgree ==
  ~parted =>
    /\ answers[1] = answers[2]
    /\ table.fences = maps.fences
    /\ \A c \in Conn : table.ages[c] = maps.ages[c] \/ c \in HalfSwept
    /\ \A p \in Player :
         {maps.slot[p]} \ {NoConn} = {c \in Rows(maps.ages) : playerOf[c] = p}
=============================================================================
