----------------------------- MODULE Broadcasts -----------------------------
(***************************************************************************)
(* How the browsers of one workshop learn of its changes.                  *)
(*                                                                         *)
(* The server changes its cached copy of the session under a write lock    *)
(* and saves it; ticks save only every SaveEvery-th time.  A change is     *)
(* told to the sockets as a full state, by a drain that a first mark       *)
(* schedules, or at once as a patch of one player's things.  A broadcast   *)
(* clones the copy, and puts it in the sockets' bounded queues later.  A   *)
(* reload puts the stored copy back in the cache.  The browser drops       *)
(* whatever has a lower revision than the state it shows.                  *)
(*                                                                         *)
(* A queue is first in, first out, and what is in it is lost only with its *)
(* socket: so a message is received when it is queued, and a queue may be  *)
(* full at any time.  A client has at most one socket (Realtime has        *)
(* several); what a notification does to a handler that is saving is in    *)
(* SessionCache.                                                           *)
(***************************************************************************)
EXTENDS Naturals, FiniteSets

CONSTANTS
  Player,      \* a player stands for their dragon too
  Client,      \* the players whose browsers are modelled
  Nobody,
  Task,        \* broadcasts that may be under way at a time
  SaveEvery,   \* a tick is saved when its number is divisible by this
  MaxTicks, MaxWork, MaxPhase, MaxVisits, MaxFaults   \* bounds

ASSUME BroadcastsAssumption ==
  /\ Client \subseteq Player /\ Nobody \notin Player
  /\ {SaveEvery, MaxPhase} \subseteq Nat \ {0}
  /\ {MaxTicks, MaxWork, MaxVisits, MaxFaults} \subseteq Nat

VARIABLES
  stored, cached,  \* the session's row and the server's copy of it
  writer,          \* the handler that holds the write lock, if any
  dirty, drains,   \* sessions to broadcast, and drains scheduled
  task,            \* broadcasts under way
  conn,            \* each player's socket
  browser,         \* what each client shows, and what that is made of
  visits, faults,  \* joins and attaches so far, failures so far
  clock, undone    \* history: changes of the cached copy, and the last one
                   \* that took something back

copies == <<stored, cached, clock, undone>>
marks  == <<dirty, drains>>
bounds == <<visits, faults>>
vars   == <<copies, writer, marks, task, conn, browser, bounds>>

(* What a session's copy holds: its revision, its phase (odd ones are      *)
(* timed care, even ones stand still), what ticks change and, for each     *)
(* player, what commands change.                                           *)
Session == [rev: Nat, phase: 1..MaxPhase, ticks: 0..MaxTicks,
            work: [Player -> 0..MaxWork]]
Touched(s) == [s EXCEPT !.rev = @ + 1]

(* What is sent: the whole copy, or one player's part of it.  cut is when  *)
(* the copy was cloned.                                                    *)
FullState(s, cut) == [kind |-> "full", copy |-> s, cut |-> cut]
Patch(s, cut, p)  == [kind |-> "patch", copy |-> s, cut |-> cut, of |-> p]

(* A browser shows a state; full is when that was last replaced as a whole *)
(* and missed when the newest message was cloned that it dropped.          *)
Showing(s, status, cut) == [shows |-> s, status |-> status, full |-> cut, missed |-> 0]

Idle     == [targets |-> {}]
NoWriter == [op |-> "none"]
Free     == writer = NoWriter

(* The first phase has begun, every client has been attached, and another  *)
(* session may have been marked.                                           *)
Init ==
  /\ stored = [rev |-> 0, phase |-> 1, ticks |-> 0, work |-> [p \in Player |-> 0]]
  /\ cached = stored
  /\ writer = NoWriter
  /\ \/ dirty = {} /\ drains = 0
     \/ dirty = {"other"} /\ drains = 1
  /\ task = [t \in Task |-> Idle]
  /\ conn = [p \in Player |-> IF p \in Client THEN "attached" ELSE "closed"]
  /\ browser = [c \in Client |-> Showing(stored, "Connected", 0)]
  /\ visits = 0 /\ faults = 0
  /\ clock = 0 /\ undone = 0

-----------------------------------------------------------------------------
(* The reducer: a message with a revision below the one shown is dropped.  *)
NewerOnly(b, m) == m.copy.rev > b.shows.rev
IsCurrent(b, m) == m.copy.rev >= b.shows.rev

(* A state update replaces what is shown, a patch its part of it.          *)
Received(b, m) ==
  IF ~IsCurrent(b, m)
  THEN [b EXCEPT !.missed = IF m.copy.rev < b.shows.rev /\ m.cut > @ THEN m.cut ELSE @]
  ELSE IF m.kind = "full"
  THEN [b EXCEPT !.shows = m.copy, !.status = "Connected", !.full = m.cut]
  ELSE [b EXCEPT !.shows.rev = m.copy.rev, !.shows.work[m.of] = m.copy.work[m.of]]

Offline(ps) == [c \in Client |-> IF c \in ps THEN [browser[c] EXCEPT !.status = "Offline"]
                                             ELSE browser[c]]

-----------------------------------------------------------------------------
(* The cached copy becomes s; takenBack says whether earlier changes that  *)
(* clients may have been told of are not in s.                             *)
Cache(s, takenBack) ==
  /\ cached' = s
  /\ clock' = IF s = cached THEN clock ELSE clock + 1
  /\ undone' = IF takenBack /\ s # cached THEN clock + 1 ELSE undone

(* A reload puts the stored copy, changed to s by its caller, in the       *)
(* cache: unsaved ticks are taken back.                                    *)
Reload(s) == Cache(s, cached # stored)

(* Only the mark that finds no session dirty schedules a drain.            *)
Mark(session) ==
  /\ dirty' = dirty \union {session}
  /\ drains' = IF dirty = {} THEN drains + 1 ELSE drains

(* A broadcast reads who is registered and clones the copy; its messages   *)
(* are queued later, by Send.                                              *)
Broadcast(message, targets) ==
  IF targets = {} THEN UNCHANGED task
  ELSE \E t \in Task :
         /\ task[t] = Idle
         /\ task' = [task EXCEPT ![t] = [message |-> message, targets |-> targets]]
Registered == {c \in Client : conn[c] = "attached"}

(* Sockets are gone: broadcasts under way no longer reach them.            *)
StillAddressed(gone) == task
Unaddressed(gone) ==
  [t \in Task |-> IF task[t].targets \subseteq gone THEN Idle
                  ELSE [task[t] EXCEPT !.targets = @ \ gone]]

-----------------------------------------------------------------------------
(* advance_game_ticks: a saved tick's failure is only logged.              *)
Tick ==
  /\ Free /\ cached.phase % 2 = 1 /\ cached.ticks < MaxTicks
  /\ LET s == [Touched(cached) EXCEPT !.ticks = @ + 1] IN
     /\ Cache(s, FALSE)
     /\ \/ s.ticks % SaveEvery = 0 /\ stored' = s /\ UNCHANGED faults
        \/ s.ticks % SaveEvery # 0 /\ UNCHANGED <<stored, faults>>
        \/ /\ s.ticks % SaveEvery = 0 /\ faults < MaxFaults
           /\ faults' = faults + 1 /\ UNCHANGED stored
  /\ Mark("this")
  /\ UNCHANGED <<writer, task, conn, browser, visits>>

(* A handler changes the cached copy to s; its save comes later.           *)
Change(op, p, s) ==
  /\ Cache(s, FALSE)
  /\ writer' = [op |-> op, player |-> p, before |-> cached, after |-> s]
  /\ UNCHANGED <<stored, marks, task, conn, browser, bounds>>

(* A command that changes one player's things.                             *)
Command(p) ==
  /\ Free /\ cached.work[p] < MaxWork
  /\ Change("patch", p, [Touched(cached) EXCEPT !.work[p] = @ + 1])

(* The host's command or the deadline moves the session on.                *)
ChangePhase ==
  /\ Free /\ cached.phase < MaxPhase
  /\ Change("mark", Nobody, [Touched(cached) EXCEPT !.phase = @ + 1])

(* The save succeeds, the lock is released and the change is told: one     *)
(* player's as a patch, every other by a mark.                             *)
Commit ==
  /\ writer.op \in {"patch", "mark"}
  /\ stored' = writer.after
  /\ writer' = NoWriter
  /\ IF writer.op = "patch"
     THEN /\ Broadcast(Patch(cached, clock, writer.player), Registered)
          /\ UNCHANGED marks
     ELSE Mark("this") /\ UNCHANGED task
  /\ UNCHANGED <<cached, clock, undone, conn, browser, bounds>>

(* The save fails: the copy is put back and nobody is told.                *)
FailSave ==
  /\ writer.op \in {"patch", "mark"}
  /\ faults < MaxFaults /\ faults' = faults + 1
  /\ Cache(writer.before, TRUE)
  /\ writer' = NoWriter
  /\ UNCHANGED <<stored, marks, task, conn, browser, visits>>

-----------------------------------------------------------------------------
(* attach_ws_session up to the registration: reload, mark the player       *)
(* connected if the copy does not say so yet, send the copy as the first   *)
(* state.  All of it is under the write lock.                              *)
Attach(p, changed) ==
  /\ Free /\ conn[p] = "closed" /\ visits < MaxVisits
  /\ visits' = visits + 1
  /\ LET s == IF changed THEN Touched(stored) ELSE stored IN
     /\ Reload(s)
     /\ browser' = [c \in Client |->
          IF c # p THEN browser[c]
          ELSE Received([browser[c] EXCEPT !.status = "Connecting"], FullState(s, clock'))]
     /\ writer' = [op |-> "attach", player |-> p, before |-> stored, after |-> s,
                   changed |-> changed]
  /\ conn' = [conn EXCEPT ![p] = "attached"]
  /\ UNCHANGED <<stored, marks, task, faults>>

(* The player's return is saved, and told to everybody else.               *)
Attached ==
  /\ writer.op = "attach"
  /\ writer' = NoWriter
  /\ IF writer.changed
     THEN /\ stored' = writer.after
          /\ Broadcast(FullState(cached, clock), Registered \ {writer.player})
     ELSE UNCHANGED <<stored, task>>
  /\ UNCHANGED <<cached, clock, undone, marks, conn, browser, bounds>>

(* It cannot be saved: the socket is dismissed and the copy put back.      *)
AttachFails ==
  /\ writer.op = "attach" /\ writer.changed
  /\ faults < MaxFaults /\ faults' = faults + 1
  /\ Cache(writer.before, TRUE)
  /\ conn' = [conn EXCEPT ![writer.player] = "closed"]
  /\ browser' = Offline({writer.player})
  /\ task' = Unaddressed({writer.player})
  /\ writer' = NoWriter
  /\ UNCHANGED <<stored, marks, visits>>

(* A socket breaks; the server has yet to handle it.                       *)
Break(p) ==
  /\ conn[p] = "attached" /\ ~(writer.op = "attach" /\ writer.player = p)
  /\ faults < MaxFaults /\ faults' = faults + 1
  /\ conn' = [conn EXCEPT ![p] = "broken"]
  /\ browser' = Offline({p})
  /\ task' = Unaddressed({p})
  /\ UNCHANGED <<copies, writer, marks, visits>>

(* sync_ws_disconnect: reload, mark the player as gone, save.  When it     *)
(* fails the copy from before the reload is put back.                      *)
Leave(p) ==
  /\ Free /\ conn[p] = "broken"
  /\ conn' = [conn EXCEPT ![p] = "closed"]
  /\ \/ /\ Reload(Touched(stored))
        /\ stored' = Touched(stored)
        /\ Mark("this") /\ UNCHANGED faults
     \/ /\ faults < MaxFaults /\ faults' = faults + 1
        /\ UNCHANGED <<copies, marks>>
  /\ UNCHANGED <<writer, task, browser, visits>>

(* A player reconnects by HTTP: the browser shows the answer, whatever it  *)
(* showed before.                                                          *)
Rejoin(p) ==
  /\ Free /\ conn[p] = "closed" /\ visits < MaxVisits
  /\ visits' = visits + 1
  /\ Reload(Touched(stored))
  /\ stored' = Touched(stored)
  /\ browser' = [c \in Client |->
       IF c = p THEN Showing(Touched(stored), "Connecting", clock') ELSE browser[c]]
  /\ Mark("this")
  /\ UNCHANGED <<writer, task, conn, faults>>

(* The listener hears of a save after a tick has changed the copy again:   *)
(* the copy is evicted, and the broadcast that follows loads the row.      *)
HearLate ==
  /\ Free /\ cached # stored
  /\ faults < MaxFaults /\ faults' = faults + 1
  /\ Reload(stored)
  /\ Broadcast(FullState(stored, clock'), Registered)
  /\ UNCHANGED <<stored, writer, marks, conn, browser, visits>>

(* A restart loses the cached copy, the sockets and everything under way;  *)
(* a client keeps what it shows.                                           *)
Restart ==
  /\ faults < MaxFaults /\ faults' = faults + 1
  /\ Reload(stored)
  /\ writer' = NoWriter
  /\ dirty' = {} /\ drains' = 0
  /\ task' = [t \in Task |-> Idle]
  /\ conn' = [p \in Player |-> "closed"]
  /\ browser' = Offline(Client)
  /\ UNCHANGED <<stored, visits>>

-----------------------------------------------------------------------------
(* drain_dirty_sessions_once takes the set, and then broadcasts.           *)
Drain ==
  /\ drains > 0 /\ drains' = drains - 1
  /\ dirty' = {}
  /\ IF "this" \in dirty THEN Broadcast(FullState(cached, clock), Registered)
     ELSE UNCHANGED task
  /\ UNCHANGED <<copies, writer, conn, browser, bounds>>

(* A broadcast's messages are queued.  A socket whose queue is full is     *)
(* closed by force.                                                        *)
Send(t) ==
  /\ task[t] # Idle
  /\ \E full \in {{}, task[t].targets} :
       /\ full = {} \/ faults < MaxFaults
       /\ faults' = IF full = {} THEN faults ELSE faults + 1
       /\ browser' = [c \in Client |->
            IF c \in task[t].targets \ full THEN Received(browser[c], task[t].message)
            ELSE Offline(full)[c]]
       /\ conn' = [p \in Player |-> IF p \in full THEN "broken" ELSE conn[p]]
       /\ task' = [Unaddressed(full) EXCEPT ![t] = Idle]
  /\ UNCHANGED <<copies, writer, marks, visits>>

-----------------------------------------------------------------------------
Next ==
  \/ Tick \/ ChangePhase \/ Commit \/ FailSave \/ Attached \/ AttachFails
  \/ HearLate \/ Restart \/ Drain
  \/ \E p \in Player : \/ Command(p) \/ Break(p) \/ Leave(p) \/ Rejoin(p)
                       \/ \E changed \in BOOLEAN : Attach(p, changed)
  \/ \E t \in Task : Send(t)

Spec == Init /\ [][Next]_vars

-----------------------------------------------------------------------------
TypeOK ==
  /\ {stored, cached} \subseteq Session
  /\ writer.op \in {"none", "patch", "mark", "attach"}
  /\ dirty \subseteq {"this", "other"} /\ drains = IF dirty = {} THEN 0 ELSE 1
  /\ \A t \in Task : task[t].targets \subseteq Registered
  /\ conn \in [Player -> {"closed", "attached", "broken"}]
  /\ \A c \in Client : browser[c].shows \in Session

(* Nothing about the session is on its way to the clients.                 *)
Quiet == Free /\ drains = 0 /\ \A t \in Task : task[t] = Idle

Connected(c) == conn[c] = "attached" /\ browser[c].status = "Connected"

(* A connected client that nothing is on its way to shows the session as   *)
(* the server has it: no mark is lost to a drain, no change slips between  *)
(* a first state and the registration, patches and full states fit.  This  *)
(* holds since its last full state, if nothing was taken back since then   *)
(* (by a reload or a failed save) and nothing newer came out of order and  *)
(* was dropped for its revision.                                           *)
QuietMeansCurrent ==
  \A c \in Client :
    LET b == browser[c] IN
    Quiet /\ Connected(c) /\ b.full >= undone /\ b.missed <= b.full => b.shows = cached
=============================================================================
