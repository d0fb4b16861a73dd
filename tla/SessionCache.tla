---------------------------- MODULE SessionCache ----------------------------
(***************************************************************************)
(* The copies of one session: the cached one every handler works on        *)
(* (AppState.sessions), the row of workshop_sessions, and what keeps them  *)
(* together: the write lock, the reloads, the periodic save of the ticker, *)
(* and the listener that hears of every save through the database's        *)
(* notifications, of this replica's own saves too, and evicts the cached   *)
(* copy when it is not the one announced.                                  *)
(*                                                                         *)
(* A handler changes the cache at once and then awaits its save: only the  *)
(* write lock spans both, and neither the listener nor a load takes it.    *)
(* When the client hangs up the server drops the handler where it awaits,  *)
(* and nothing puts the cached copy back.                                  *)
(* What the session says is abstracted to the work of handlers and the     *)
(* ticks of its clock; Workshop has the rest (presence and the mark that   *)
(* players were warned, which no save is for), with handlers as single     *)
(* steps.                                                                  *)
(***************************************************************************)
EXTENDS Naturals, Sequences, FiniteSets

CONSTANTS
  Item,        \* what is added to the session, each once
  Notes,       \* the items that a refused handover fills in, commands the others
  Day,         \* ticks of a day: the session's time is modulo Day
  SaveEvery,   \* the ticker saves when the time is a multiple of SaveEvery
  WritesFail,  \* whether the store and its listener may fail
  NoCopy,      \* nothing cached, no snapshot
  MaxTicks,    \* bound: ticks of the session's clock
  MaxTouches,  \* bound: changes of the session
  MaxLoading,  \* bound: loads under way together
  MaxClosing   \* bound: sockets that wait for the lease together

ASSUME ClockAssumption == Day \in Nat \ {0} /\ SaveEvery \in Nat \ {0} /\ SaveEvery <= Day
ASSUME BoundAssumption == {MaxTicks, MaxTouches, MaxLoading, MaxClosing} \subseteq Nat
ASSUME NotesAssumption == Notes \subseteq Item
ASSUME FailAssumption  == WritesFail \in BOOLEAN

VARIABLES
  cache,     \* the cached copy, or NoCopy
  loading,   \* what loads have read from the store and not yet cached
  store,     \* the saved copy
  writer,    \* the holder of the write lock that awaits its save
  stray,     \* the copy a dropped handler was just committing
  closing,   \* what closing sockets, waiting for the lease, saw in the cache
  clock,     \* the last updated_at that was drawn
  notes,     \* notifications on their way to the listener
  recent,    \* the fingerprint of recent_session_notifications, 0 for none
  acked,     \* history: work whose command was answered with success
  undone,    \* history: a load overlapped a save, or a failed close put a copy back
  damaged,   \* history: a failure or a late load may have left the cached copy aside
  ahead,     \* history: a handler has left work in the cache that nobody saves
  unsaved    \* history: saves of the ticker that failed since the last success

copies == <<cache, loading, store, writer, stray, closing, clock>>
told   == <<notes, recent>>
past   == <<acked, undone, damaged, ahead, unsaved>>
vars   == <<copies, told, past>>

Copy   == [work : SUBSET Item, ticks : Nat, stamp : Nat]
ASSUME NoCopyAssumption == NoCopy \notin Copy
Writer == [by : {"nobody", "command", "ticker", "reload", "close"},
           copy : Copy \cup {NoCopy}, before : Copy \cup {NoCopy}]
Note   == [typed : BOOLEAN, stamp : Nat]

Nobody == [by |-> "nobody", copy |-> NoCopy, before |-> NoCopy]
Idle   == writer.by = "nobody"
Fresh  == [work |-> {}, ticks |-> 0, stamp |-> 0]

-----------------------------------------------------------------------------
(* Loading, touching, saving. *)

(* updated_at is drawn when the copy is changed, not when it was read: a   *)
(* copy that missed a save is newer than that save once it is touched.     *)
Touched(copy) == [copy EXCEPT !.stamp = clock + 1]

(* The handler's change is in the cache; its save is under way.            *)
Change(by, copy, before) ==
  /\ clock < MaxTouches
  /\ clock' = clock + 1
  /\ cache' = Touched(copy)
  /\ writer' = [by |-> by, copy |-> Touched(copy), before |-> before]

Announced(copy) == notes \o <<[typed |-> TRUE, stamp |-> copy.stamp],
                              [typed |-> FALSE, stamp |-> copy.stamp]>>

(* ensure_session_cached, by whoever needs the session, and the reload     *)
(* with which drawing begins: neither asks for the write lock.             *)
BeginLoad ==
  /\ Cardinality(loading) < MaxLoading
  /\ loading' = loading \cup {store}
  /\ UNCHANGED <<cache, store, writer, stray, closing, clock, told, past>>

Cached(copy) ==
  /\ cache' = copy
  /\ undone' = (undone \/ ~Idle \/ copy # store)
  /\ damaged' = (copy # store \/ (damaged /\ ~Idle))
  /\ ahead' = FALSE

(* The reload caches what it has read whatever is cached, the other unless *)
(* something is; and either may fail.                                      *)
FinishLoad(copy) ==
  /\ loading' = loading \ {copy}
  /\ Cached(copy) \/ UNCHANGED <<cache, undone, damaged, ahead>>
  /\ UNCHANGED <<store, writer, stray, closing, clock, told, acked, unsaved>>

-----------------------------------------------------------------------------
(* The handlers, up to their save. *)

Command(i) ==
  /\ Idle
  /\ cache # NoCopy
  /\ i \notin acked \cup cache.work
  /\ Change("command", [cache EXCEPT !.work = @ \cup {i}], cache)
  /\ UNCHANGED <<loading, store, stray, closing, told, past>>

(* A start of phase 2 that is refused has filled in notes for players who  *)
(* are away; they stay in the cached copy, under its old updated_at.       *)
Refuse(i) ==
  /\ Idle
  /\ cache # NoCopy
  /\ i \notin acked \cup cache.work
  /\ cache' = [cache EXCEPT !.work = @ \cup {i}]
  /\ ahead' = TRUE
  /\ UNCHANGED <<loading, store, writer, stray, closing, clock, told, acked, undone, damaged,
                 unsaved>>

(* A second of play: only some ticks are saved.                            *)
Due(copy) == (copy.ticks % Day) % SaveEvery = 0
Tick(awards) ==
  LET next == [cache EXCEPT !.ticks = @ + 1] IN
  /\ Idle
  /\ cache # NoCopy
  /\ cache.ticks < MaxTicks
  /\ IF awards \/ Due(next)
     THEN Change("ticker", next, NoCopy)
     ELSE /\ clock < MaxTouches
          /\ clock' = clock + 1
          /\ cache' = Touched(next)
          /\ UNCHANGED writer
  /\ UNCHANGED <<loading, store, stray, closing, told, past>>

(* A handler that reloads first caches what it read: the row, or an older  *)
(* one if a commit nobody awaits is done meanwhile; and before it goes on, *)
(* a load may have put in its place what it had read (base, either way).   *)
(* The handler may stop there, as a websocket of a player already shown as *)
(* connected does; or it changes that copy, to put it back - seen, if      *)
(* there is such - should its save fail.                                   *)
ReloadThenChange(by, base, seen) ==
  /\ \/ Change(by, base, IF seen = NoCopy THEN base ELSE seen)
     \/ cache' = base /\ UNCHANGED <<writer, clock>>
  /\ undone' = (undone \/ base # store)
  /\ damaged' = (base # store)
  /\ ahead' = FALSE

(* A join, an attaching websocket, the judge, the end of a drawing.        *)
Reload(base) ==
  /\ Idle
  /\ ReloadThenChange("reload", base, NoCopy)
  /\ UNCHANGED <<loading, store, stray, closing, told, acked, unsaved>>

(* A closing socket looks at the cache before it has the lease.            *)
BeginClose ==
  /\ Cardinality(closing) < MaxClosing
  /\ closing' = closing \cup {cache}
  /\ UNCHANGED <<cache, loading, store, writer, stray, clock, told, past>>

(* Variant: it may have seen nothing.                                      *)
FinishCloseBlind(seen, base) ==
  /\ Idle
  /\ closing' = closing \ {seen}
  /\ Change("close", base, seen)
  /\ undone' = (undone \/ base # store)
  /\ damaged' = (base # store)
  /\ ahead' = FALSE
  /\ UNCHANGED <<loading, store, stray, told, acked, unsaved>>

FinishClose(seen, base) ==
  /\ Idle
  /\ closing' = closing \ {seen}
  /\ ReloadThenChange("close", base, seen)
  /\ UNCHANGED <<loading, store, stray, told, acked, unsaved>>

-----------------------------------------------------------------------------
(* The save. *)

Answered == IF writer.by = "command" THEN acked \cup writer.copy.work ELSE acked

(* Until a commit under way is done, the row is locked.                    *)
Committed ==
  /\ ~Idle
  /\ stray = NoCopy
  /\ store' = writer.copy
  /\ notes' = Announced(writer.copy)

(* Variant: the command is answered before its save is done.               *)
CommitUnsaved ==
  /\ ~Idle
  /\ IF writer.by = "command" THEN UNCHANGED <<store, notes>> ELSE Committed
  /\ writer' = Nobody
  /\ acked' = Answered
  /\ unsaved' = 0
  /\ UNCHANGED <<cache, loading, stray, closing, clock, recent, undone, damaged, ahead>>

Commit ==
  /\ Committed
  /\ writer' = Nobody
  /\ acked' = Answered
  /\ unsaved' = 0
  /\ ahead' = FALSE
  /\ UNCHANGED <<cache, loading, stray, closing, clock, recent, undone, damaged>>

(* The handler is told of a failure, whether or not the transaction went   *)
(* through: it puts back the copy it started from, a closing socket the    *)
(* one it saw before it had the lease; the ticker puts nothing back.       *)
FailSave ==
  /\ WritesFail
  /\ ~Idle
  /\ Committed \/ UNCHANGED <<store, notes>>
  /\ writer' = Nobody
  /\ undone' = (undone \/ writer.by = "close")
  /\ IF writer.by = "ticker"
     THEN unsaved' = unsaved + 1 /\ UNCHANGED <<cache, damaged>>
     ELSE cache' = writer.before /\ damaged' = TRUE /\ UNCHANGED unsaved
  /\ UNCHANGED <<loading, stray, closing, clock, recent, acked, ahead>>

(* The client of a request hangs up: its handler is dropped, the write     *)
(* lock free, and what it has cached stays.  Its transaction is rolled     *)
(* back, unless its commit was already under way.  The judge does the like *)
(* by itself if it has lost its lease before the save.                     *)
HangUp ==
  /\ writer.by \in {"command", "reload"}
  /\ writer' = Nobody
  /\ \/ UNCHANGED stray
     \/ stray = NoCopy /\ stray' = writer.copy
  /\ ahead' = TRUE
  /\ UNCHANGED <<cache, loading, store, closing, clock, told, acked, undone, damaged, unsaved>>

(* The commit that nobody awaits is done.                                  *)
Land ==
  /\ stray # NoCopy
  /\ store' = stray
  /\ notes' = Announced(stray)
  /\ stray' = NoCopy
  /\ UNCHANGED <<cache, loading, writer, closing, clock, recent, past>>

-----------------------------------------------------------------------------
(* The listener. *)

Evict == cache' = NoCopy

(* Variant: whatever is cached is taken for what was announced.            *)
HearAnyUpdate ==
  /\ notes # <<>> /\ Head(notes).typed
  /\ notes' = Tail(notes)
  /\ \/ cache # NoCopy /\ recent' = Head(notes).stamp /\ UNCHANGED cache
     \/ cache = NoCopy /\ UNCHANGED <<cache, recent>>
  /\ UNCHANGED <<loading, store, writer, stray, closing, clock, past>>

Holds(stamp) == cache # NoCopy /\ cache.stamp = stamp

(* A typed notification: the announced copy stays and is remembered, any   *)
(* other is evicted; it is remembered too if clients had to be told.       *)
HearUpdate ==
  LET n == Head(notes).stamp IN
  /\ notes # <<>> /\ Head(notes).typed
  /\ notes' = Tail(notes)
  /\ \/ Holds(n) /\ recent' = n /\ UNCHANGED cache
     \/ ~Holds(n) /\ Evict /\ recent' \in {recent, n}
  /\ UNCHANGED <<loading, store, writer, stray, closing, clock, past>>

(* The plain notification that follows: a repetition, unless the store has *)
(* moved on.                                                               *)
HearLegacyUpdate ==
  /\ notes # <<>> /\ ~Head(notes).typed
  /\ notes' = Tail(notes)
  /\ recent' = 0
  /\ IF recent # 0 /\ store.stamp = recent THEN UNCHANGED cache ELSE Evict
  /\ UNCHANGED <<loading, store, writer, stray, closing, clock, past>>

(* The listener's connection breaks: what was under way is never heard.    *)
LoseListener ==
  /\ WritesFail
  /\ notes # <<>>
  /\ notes' = <<>>
  /\ damaged' = TRUE
  /\ UNCHANGED <<copies, recent, acked, undone, ahead, unsaved>>

(* The server restarts: a save under way may still go through.             *)
Restart ==
  /\ cache' = NoCopy
  /\ loading' = {}
  /\ store' \in {store, stray, writer.copy} \ {NoCopy}
  /\ writer' = Nobody
  /\ stray' = NoCopy
  /\ closing' = {}
  /\ notes' = <<>>
  /\ recent' = 0
  /\ damaged' = FALSE /\ ahead' = FALSE
  /\ unsaved' = 0
  /\ UNCHANGED <<clock, acked, undone>>

-----------------------------------------------------------------------------

Init ==
  /\ cache \in {Fresh, NoCopy}
  /\ loading = {}
  /\ store = Fresh
  /\ writer = Nobody
  /\ stray = NoCopy
  /\ closing = {}
  /\ clock = 0
  /\ notes = <<>>
  /\ recent = 0
  /\ acked = {}
  /\ undone = FALSE
  /\ damaged = FALSE /\ ahead = FALSE
  /\ unsaved = 0

Next ==
  \/ BeginLoad \/ BeginClose \/ Commit \/ FailSave \/ HangUp \/ Land
  \/ \E copy \in loading : FinishLoad(copy)
  \/ \E i \in Item \ Notes : Command(i)
  \/ \E i \in Notes : Refuse(i)
  \/ \E awards \in BOOLEAN : Tick(awards)
  \/ \E base \in {store} \cup loading :
       Reload(base) \/ \E seen \in closing : FinishClose(seen, base)
  \/ HearUpdate \/ HearLegacyUpdate \/ LoseListener \/ Restart

Spec == Init /\ [][Next]_vars

-----------------------------------------------------------------------------
(* What must hold. *)

(* Every variable has its type, and whoever puts a copy back has one.      *)
TypeOK ==
  /\ cache \in Copy \cup {NoCopy}
  /\ loading \subseteq Copy
  /\ store \in Copy
  /\ writer \in Writer
  /\ Idle <=> writer.copy = NoCopy
  /\ writer.by \in {"command", "reload", "close"} => writer.before # NoCopy
  /\ stray \in Copy \cup {NoCopy}
  /\ closing \subseteq Copy \cup {NoCopy}
  /\ clock \in Nat /\ recent \in Nat /\ unsaved \in Nat
  /\ notes \in Seq(Note)
  /\ acked \subseteq Item
  /\ {undone, damaged, ahead} \subseteq BOOLEAN

Settled == notes = <<>> /\ Idle /\ ~damaged /\ cache # NoCopy

(* Once the listener has heard everything and no save is under way, the    *)
(* cached copy has all the work of the saved one, whatever evictions and   *)
(* loads came in between - unless a failure left it aside, or a load read  *)
(* the store before a save and cached what it read after it.  It has other *)
(* work only if a client hung up, the judge lost its lease, or a handover  *)
(* was refused, until the next save: that work is shown to everybody, and  *)
(* gone with the next reload.  What a reload or a restart takes back of    *)
(* the clock is less than one saving interval of ticks, and one more for   *)
(* every save of the ticker that failed.                                   *)
CacheCatchesUp ==
  Settled => /\ store.work \subseteq cache.work
             /\ cache.work # store.work => ahead
             /\ cache.ticks < store.ticks + SaveEvery * (1 + unsaved)

(* Work that was answered with success stays in the store through every    *)
(* failed, repeated or half-done save - as long as no load overlapped a    *)
(* save, and no failed close put back what it saw.                         *)
AnsweredWorkIsSaved == ~undone => acked \subseteq store.work

-----------------------------------------------------------------------------
(* What the tests say, and the code does not do.                           *)

(* The tests of the store: a stale session write is rejected.  So a save   *)
(* that is accepted keeps all the work answered before.                    *)
StaleWritesAreRejected == [][acked \subseteq store.work => acked' \subseteq store'.work]_vars

=============================================================================
