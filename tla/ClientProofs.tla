---------------------------- MODULE ClientProofs ----------------------------
(***************************************************************************)
(* What the browsers are shown, for any number of players, clients and     *)
(* broadcasts under way, what one tab makes of late answers, and the pages *)
(* of the list of workshops.                                               *)
(*                                                                         *)
(* That a client is up to date when nothing is on its way follows from     *)
(* what is on its way at any other time: whatever of the session it does   *)
(* not show yet is in a message to it, or a mark or the writer will put it *)
(* in one.  Messages overtake each other, so the copies they carry must be *)
(* comparable; those that were taken back since are not, and are left out. *)
(***************************************************************************)
EXTENDS MCClient, FiniteSetTheorems, TLAPS

-----------------------------------------------------------------------------
(* Copies of the session, in the order of time.                            *)

Under(s, t) ==
  /\ s.phase <= t.phase /\ s.ticks <= t.ticks
  /\ \A p \in Player : s.work[p] <= t.work[p]
Earlier(s, t) ==
  /\ s.rev <= t.rev /\ Under(s, t)
  /\ s.rev = t.rev => s = t

CopiesOK ==
  /\ stored \in Session /\ cached \in Session /\ Earlier(stored, cached)
  /\ clock \in Nat /\ undone \in Nat /\ undone <= clock

MarksOK ==
  /\ dirty \subseteq {"this", "other"} /\ drains = IF dirty = {} THEN 0 ELSE 1
  /\ conn \in [Player -> {"closed", "attached", "broken"}]

WriterOK ==
  /\ writer.op \in {"none", "patch", "mark", "attach"}
  /\ writer.op = "none" => writer = NoWriter
  /\ writer.op # "none" =>
       /\ writer.before \in Session /\ writer.after = cached
       /\ Earlier(stored, writer.before)
  /\ writer.op \in {"patch", "mark"} => writer.after.rev = writer.before.rev + 1
  /\ writer.op = "patch" => writer.player \in Player
  /\ writer.op = "attach" =>
       /\ writer.player \in Player /\ writer.changed \in BOOLEAN
       /\ writer.before = stored
       /\ writer.after = IF writer.changed THEN Touched(stored) ELSE stored

-----------------------------------------------------------------------------
(* What a message says has not been taken back: a patch is saved before it *)
(* is told.                                                                *)
Valid(m) == m.kind = "patch" \/ m.cut >= undone

MessageOK(m) ==
  /\ m.kind \in {"full", "patch"} /\ m.copy \in Session
  /\ m.cut \in Nat /\ m.cut <= clock
  /\ m.kind = "patch" => m.of \in Player /\ Earlier(m.copy, stored)
  /\ Valid(m) => Earlier(m.copy, cached)
  /\ m.cut = clock => m.copy = cached

(* Of two copies that stand, the one cloned first is the earlier.          *)
InOrder(m, n) == Valid(m) /\ Valid(n) /\ m.cut <= n.cut => Earlier(m.copy, n.copy)

Busy == {t \in Task : task[t] # Idle}
TasksOK ==
  /\ DOMAIN task = Task
  /\ \A t \in Busy :
       /\ task[t].targets \subseteq Registered /\ task[t].targets # {}
       /\ task[t] = [message |-> task[t].message, targets |-> task[t].targets]
       /\ MessageOK(task[t].message)
  /\ \A t, u \in Busy : InOrder(task[t].message, task[u].message)

-----------------------------------------------------------------------------
(* What a browser shows since a full state that stands lies between what   *)
(* was cloned before that state and what was cloned after what it shows.   *)
Browser == [shows: Session, status: {"Connected", "Connecting", "Offline"},
            full: Nat, missed: Nat]
BrowserOK(b) ==
  /\ b \in Browser
  /\ b.full <= clock
  /\ b.full = clock => b.shows = cached
  /\ b.full >= undone => b.shows.rev <= cached.rev /\ Under(b.shows, cached)
Between(b, m) == b.full >= undone /\ Valid(m) =>
  /\ b.shows.rev <= m.copy.rev => Under(b.shows, m.copy)
  /\ m.cut <= b.full => Under(m.copy, b.shows)

ClientOK(c) ==
  /\ BrowserOK(browser[c])
  /\ \A t \in Busy : Between(browser[c], task[t].message)
BrowsersOK == \A c \in Client : ClientOK(c)

-----------------------------------------------------------------------------
(* The messages on their way to a client that stand.                       *)
Coming(c) == {t \in Busy : c \in task[t].targets /\ Valid(task[t].message)}
Fulls(c)  == {t \in Coming(c) : task[t].message.kind = "full"}
About(c, p) ==
  {t \in Coming(c) : LET m == task[t].message IN m.kind = "patch" => m.of = p}

(* A full state is still to be cloned for the client.                      *)
Pending(c) ==
  \/ "this" \in dirty
  \/ writer.op = "mark"
  \/ writer.op = "attach" /\ writer.changed /\ c # writer.player
Patching(p) == writer.op = "patch" /\ writer.player = p

(* All that s lacks of the session as it is will be told to the client.    *)
Told(c, s) ==
  /\ \/ s.phase = cached.phase /\ s.ticks = cached.ticks
     \/ \E t \in Fulls(c) : LET m == task[t].message.copy IN
          m.phase = cached.phase /\ m.ticks = cached.ticks
  /\ \A p \in Player :
       \/ s.work[p] = cached.work[p] \/ Patching(p)
       \/ \E t \in About(c, p) : task[t].message.copy.work[p] = cached.work[p]
  /\ \/ s.rev = cached.rev \/ writer.op = "patch"
     \/ \E t \in Coming(c) : task[t].message.copy.rev = cached.rev
Covered(c, s) == Pending(c) \/ Told(c, s)

(* What a client shows is covered, and so is what it is about to show.     *)
ClientCovered(c) ==
  LET b == browser[c] IN
  /\ Connected(c) /\ b.full >= undone /\ b.missed <= b.full => Covered(c, b.shows)
  /\ \A t \in Fulls(c) : LET m == task[t].message IN
       m.copy.rev >= b.shows.rev => Covered(c, m.copy)
ClientsCovered == \A c \in Client : ClientCovered(c)

BInv == CopiesOK /\ MarksOK /\ WriterOK /\ TasksOK /\ BrowsersOK /\ ClientsCovered

-----------------------------------------------------------------------------
(* The bounds, and the order of copies.                                    *)

(* The bounds are numbers.                                                 *)
LEMMA Bounds ==
  /\ Client \subseteq Player /\ Nobody \notin Player /\ SaveEvery \in Nat \ {0}
  /\ MaxTicks \in Nat /\ MaxWork \in Nat /\ MaxPhase \in Nat \ {0}
  /\ MaxVisits \in Nat /\ MaxFaults \in Nat
BY BroadcastsAssumption

(* What a copy holds are numbers.                                          *)
LEMMA Fields ==
  ASSUME NEW s \in Session
  PROVE  /\ s.rev \in Nat /\ s.phase \in Nat /\ s.ticks \in Nat
         /\ \A p \in Player : s.work[p] \in Nat
BY Bounds DEF Session

(* Both orders are reflexive and transitive, and the revision decides.     *)
LEMMA Orders ==
  /\ \A s \in Session : Earlier(s, s) /\ Under(s, s)
  /\ \A s, t \in Session : Earlier(s, t) =>
       s.rev <= t.rev /\ Under(s, t) /\ (t.rev <= s.rev => s = t)
  /\ \A s, t, u \in Session : Under(s, t) /\ Under(t, u) => Under(s, u)
  /\ \A s, t, u \in Session : Earlier(s, t) /\ Earlier(t, u) => Earlier(s, u)
<1>1. \A s \in Session : Earlier(s, s) /\ Under(s, s)
  BY Fields DEF Earlier, Under
<1>2. \A s, t \in Session : Earlier(s, t) =>
       s.rev <= t.rev /\ Under(s, t) /\ (t.rev <= s.rev => s = t)
  BY Fields DEF Earlier
<1>3. ASSUME NEW s \in Session, NEW t \in Session, NEW u \in Session,
             Under(s, t), Under(t, u)
      PROVE  Under(s, u)
  BY <1>3, Fields DEF Under
<1>4. ASSUME NEW s \in Session, NEW t \in Session, NEW u \in Session,
             Earlier(s, t), Earlier(t, u)
      PROVE  Earlier(s, u)
  <2>1. Under(s, u)
    BY <1>3, <1>4 DEF Earlier
  <2>2. s.rev <= u.rev /\ (s.rev = u.rev => s = t /\ t = u)
    BY <1>4, Fields DEF Earlier
  <2> QED BY <2>1, <2>2 DEF Earlier
<1> QED BY <1>1, <1>2, <1>3, <1>4

(* A copy that was touched is a later one.                                 *)
LEMMA TouchedIsLater ==
  ASSUME NEW s \in Session
  PROVE  /\ Touched(s) \in Session /\ Touched(s).rev = s.rev + 1 /\ Earlier(s, Touched(s))
         /\ Touched(s).phase = s.phase /\ Touched(s).ticks = s.ticks /\ Touched(s).work = s.work
<1>1. /\ Touched(s) \in Session /\ Touched(s).rev = s.rev + 1
      /\ Touched(s).phase = s.phase /\ Touched(s).ticks = s.ticks /\ Touched(s).work = s.work
  BY DEF Touched, Session
<1> QED BY <1>1, Fields DEF Earlier, Under

-----------------------------------------------------------------------------
(* What a step does to the copies: the cached one stays, goes on, or is    *)
(* taken back; the stored one goes on.                                     *)
Stays     == cached' = cached /\ clock' = clock /\ undone' = undone
GoesOn    == /\ Earlier(cached, cached') /\ cached.rev < cached'.rev
             /\ clock' = clock + 1 /\ undone' = undone
TakenBack == clock' = clock + 1 /\ undone' = clock + 1
Moves ==
  /\ cached' \in Session /\ stored' \in Session
  /\ Earlier(stored, stored') /\ Earlier(stored', cached')
  /\ Stays \/ GoesOn \/ TakenBack

(* The copies stay sound.                                                  *)
LEMMA MovesCopies == ASSUME CopiesOK, Moves PROVE CopiesOK'
BY DEF CopiesOK, Moves, Stays, GoesOn, TakenBack

(* What stands after a step stood before it, unless it is newer.           *)
LEMMA MovesValid ==
  ASSUME CopiesOK, Moves, NEW m, MessageOK(m), Valid(m)'
  PROVE  Valid(m) /\ (TakenBack => m.kind = "patch")
BY DEF CopiesOK, MessageOK, Moves, Stays, GoesOn, TakenBack, Valid

(* Messages stay sound, and in order.                                      *)
LEMMA MovesMessage ==
  ASSUME CopiesOK, Moves, NEW m, MessageOK(m)
  PROVE  MessageOK(m)'
<1>1. m.kind = "patch" => Earlier(m.copy, stored') /\ Earlier(m.copy, cached')
  BY Orders DEF CopiesOK, MessageOK, Moves
<1>2. ASSUME Valid(m)' PROVE Earlier(m.copy, cached')
  <2>1. CASE TakenBack
    BY <1>1, <1>2, <2>1, MovesValid
  <2>2. CASE Stays \/ GoesOn
    BY <1>2, <2>2, MovesValid, Orders DEF CopiesOK, MessageOK, Moves, Stays, GoesOn
  <2> QED BY <2>1, <2>2 DEF Moves
<1>3. m.cut <= clock' /\ (m.cut = clock' => m.copy = cached')
  BY DEF CopiesOK, MessageOK, Moves, Stays, GoesOn, TakenBack
<1> QED BY <1>1, <1>2, <1>3 DEF MessageOK

(* Messages stay in order.                                                 *)
LEMMA MovesOrder ==
  ASSUME CopiesOK, Moves, NEW m, NEW n, MessageOK(m), MessageOK(n), InOrder(m, n)
  PROVE  InOrder(m, n)'
BY MovesValid DEF InOrder

(* A browser that shows the same stays sound.                              *)
LEMMA MovesBrowser ==
  ASSUME CopiesOK, Moves, NEW b, BrowserOK(b)
  PROVE  BrowserOK(b)'
<1> USE DEF BrowserOK, Browser
<1>1. b.full <= clock' /\ (b.full = clock' => b.shows = cached')
  BY DEF CopiesOK, Moves, Stays, GoesOn, TakenBack
<1>2. ASSUME b.full >= undone' PROVE b.shows.rev <= cached'.rev /\ Under(b.shows, cached')
  <2>1. ~TakenBack /\ b.full >= undone
    BY <1>2 DEF CopiesOK, Moves, Stays, GoesOn, TakenBack
  <2>2. CASE Stays
    BY <2>1, <2>2 DEF Stays
  <2>3. CASE GoesOn
    BY <2>1, <2>3, Orders, Fields DEF CopiesOK, Moves, GoesOn
  <2> QED BY <2>1, <2>2, <2>3 DEF Moves
<1> QED BY <1>1, <1>2

(* And what it shows stays between the messages.                           *)
LEMMA MovesBetween ==
  ASSUME CopiesOK, Moves, NEW b, BrowserOK(b), NEW m, MessageOK(m), Between(b, m)
  PROVE  Between(b, m)'
<1>1. b.full >= undone' => b.full >= undone
  BY DEF BrowserOK, Browser, CopiesOK, Moves, Stays, GoesOn, TakenBack
<1> QED BY <1>1, MovesValid DEF Between

-----------------------------------------------------------------------------
(* Broadcasts under way: some are sent or lose their targets, or one is    *)
(* added.                                                                  *)
Fewer ==
  /\ DOMAIN task' = Task
  /\ \A t \in Task : task'[t] # Idle =>
       /\ task[t] # Idle /\ task'[t].message = task[t].message
       /\ task'[t].targets \subseteq task[t].targets /\ task'[t].targets # {}
       /\ task'[t] = [message |-> task'[t].message, targets |-> task'[t].targets]
Added(m, targets) == \E t \in Task :
  /\ task[t] = Idle
  /\ DOMAIN task' = Task
  /\ task'[t] = [message |-> m, targets |-> targets]
  /\ \A u \in Task \ {t} : task'[u] = task[u]

(* No broadcast is changed.                                                *)
LEMMA SameTasks == ASSUME TasksOK, task' = task PROVE Fewer
BY DEF TasksOK, Fewer, Busy

(* A broadcast is added, unless it is to nobody.                           *)
LEMMA Broadcasting ==
  ASSUME TasksOK, NEW m, NEW targets, Broadcast(m, targets)
  PROVE  IF targets = {} THEN task' = task ELSE Added(m, targets)
<1>1. CASE targets = {}
  BY <1>1 DEF Broadcast
<1>2. CASE targets # {}
  <2>1. PICK t \in Task : /\ task[t] = Idle
                          /\ task' = [task EXCEPT ![t] = [message |-> m, targets |-> targets]]
    BY <1>2 DEF Broadcast
  <2>2. /\ DOMAIN task' = Task /\ task'[t] = [message |-> m, targets |-> targets]
        /\ \A u \in Task \ {t} : task'[u] = task[u]
    BY <2>1 DEF TasksOK
  <2> QED BY <1>2, <2>1, <2>2 DEF Added
<1> QED BY <1>1, <1>2

(* Losing targets leaves fewer.                                            *)
LEMMA Dismissing ==
  ASSUME TasksOK, NEW gone, NEW t \in Task,
         \/ task' = Unaddressed(gone)
         \/ task' = [Unaddressed(gone) EXCEPT ![t] = Idle]
  PROVE  /\ Fewer
         /\ \A u \in Task : /\ task'[u].targets \cap gone = {}
                            /\ \/ task'[u].targets = task[u].targets \ gone
                               \/ u = t /\ task'[u] = Idle
<1>1. DOMAIN task' = Task
  BY DEF Unaddressed
<1>2. ASSUME NEW u \in Task, task[u].targets \subseteq gone
      PROVE  task'[u] = Idle
  BY <1>2 DEF Unaddressed
<1>3. ASSUME NEW u \in Task, ~(task[u].targets \subseteq gone)
      PROVE  \/ u = t /\ task'[u] = Idle
             \/ /\ task[u] # Idle /\ task'[u].message = task[u].message
                /\ task'[u].targets = task[u].targets \ gone
                /\ task'[u] = [message |-> task'[u].message, targets |-> task'[u].targets]
  <2>1. task[u] # Idle
    BY <1>3 DEF Idle
  <2>2. task[u] = [message |-> task[u].message, targets |-> task[u].targets]
    BY <2>1 DEF TasksOK, Busy
  <2> DEFINE r == [task[u] EXCEPT !.targets = @ \ gone]
  <2>3. task'[u] = r \/ (u = t /\ task'[u] = Idle)
    BY <1>3 DEF Unaddressed
  <2>4. /\ r = [message |-> task[u].message, targets |-> task[u].targets \ gone]
    BY <2>2
  <2> HIDE DEF r
  <2> QED BY <2>1, <2>3, <2>4
<1>4. Idle.targets = {}
  BY DEF Idle
<1> QED
  <2>1. \A u \in Task : /\ task'[u].targets \cap gone = {}
                        /\ \/ task'[u].targets = task[u].targets \ gone
                           \/ u = t /\ task'[u] = Idle
    BY <1>2, <1>3, <1>4
  <2>2. Fewer
    BY <1>1, <1>2, <1>3 DEF Fewer
  <2> QED BY <2>1, <2>2

(* Those that are left stay sound while their targets are registered.      *)
LEMMA FewerTasks ==
  ASSUME CopiesOK, TasksOK, Moves, Fewer, \A t \in Busy' : task'[t].targets \subseteq Registered'
  PROVE  TasksOK'
<1>1. Busy' \subseteq Busy /\ \A t \in Busy' : task'[t].message = task[t].message
  BY DEF Fewer, Busy
<1>2. ASSUME NEW t \in Busy' PROVE MessageOK(task[t].message)'
  <2>1. PICK m : m = task'[t].message
    OBVIOUS
  <2>2. MessageOK(m)'
    BY <1>1, <2>1, MovesMessage DEF TasksOK
  <2> QED BY <2>1, <2>2 DEF MessageOK, Valid
<1>3. ASSUME NEW t \in Busy', NEW u \in Busy'
      PROVE  InOrder(task[t].message, task[u].message)'
  <2>1. PICK m : m = task'[t].message
    OBVIOUS
  <2>2. PICK n : n = task'[u].message
    OBVIOUS
  <2>3. InOrder(m, n)'
    BY <1>1, <2>1, <2>2, MovesOrder DEF TasksOK
  <2> QED BY <2>1, <2>2, <2>3 DEF InOrder, Valid
<1>4. /\ DOMAIN task' = Task
      /\ \A t \in Busy' :
         /\ task'[t].targets # {}
         /\ task'[t] = [message |-> task'[t].message, targets |-> task'[t].targets]
  BY DEF Fewer, Busy
<1> QED BY <1>2, <1>3, <1>4 DEF TasksOK

(* A message that says what the server has now is in order with the rest.  *)
LEMMA NewMessage ==
  ASSUME CopiesOK, Moves, NEW m, m.copy = cached', m.cut = clock',
         \/ m.kind = "full"
         \/ m.kind = "patch" /\ m.of \in Player /\ stored' = cached'
  PROVE  /\ MessageOK(m)' /\ Valid(m)'
         /\ \A n : MessageOK(n) => InOrder(m, n)' /\ InOrder(n, m)'
         /\ InOrder(m, m)'
<1>1. CopiesOK'
  BY MovesCopies
<1>2. MessageOK(m)' /\ Valid(m)'
  BY <1>1, Orders DEF MessageOK, Valid, CopiesOK
<1>3. ASSUME NEW n, MessageOK(n) PROVE InOrder(m, n)' /\ InOrder(n, m)'
  <2>1. MessageOK(n)'
    BY <1>3, MovesMessage
  <2> QED BY <1>1, <2>1, Orders DEF InOrder, MessageOK, CopiesOK
<1>4. InOrder(m, m)'
  BY <1>1, Orders DEF InOrder, CopiesOK
<1> QED BY <1>2, <1>3, <1>4

(* Adding one that does keeps them sound.                                  *)
LEMMA MoreTasks ==
  ASSUME CopiesOK, TasksOK, Moves, NEW m, NEW targets,
         targets # {}, Added(m, targets), targets \subseteq Registered', Registered' = Registered,
         m.copy = cached', m.cut = clock',
         \/ m.kind = "full"
         \/ m.kind = "patch" /\ m.of \in Player /\ stored' = cached'
  PROVE  TasksOK'
<1>1. PICK new \in Task :
        /\ task[new] = Idle /\ DOMAIN task' = Task
        /\ task'[new] = [message |-> m, targets |-> targets]
        /\ \A u \in Task \ {new} : task'[u] = task[u]
  BY DEF Added
<1>2. \A t \in Busy' : t = new \/ (t \in Busy /\ task'[t] = task[t])
  BY <1>1 DEF Busy
<1>3. /\ MessageOK(m)' /\ InOrder(m, m)'
      /\ \A n : MessageOK(n) => InOrder(m, n)' /\ InOrder(n, m)'
  BY NewMessage
<1>4. ASSUME NEW t \in Busy' PROVE MessageOK(task[t].message)'
  <2>1. PICK n : n = task'[t].message
    OBVIOUS
  <2>2. MessageOK(n)'
    <3>1. CASE t = new
      BY <1>1, <1>3, <2>1, <3>1
    <3>2. CASE t # new
      BY <1>2, <2>1, <3>2, MovesMessage DEF TasksOK
    <3> QED BY <3>1, <3>2
  <2> QED BY <2>1, <2>2 DEF MessageOK, Valid
<1>5. ASSUME NEW t \in Busy', NEW u \in Busy'
      PROVE  InOrder(task[t].message, task[u].message)'
  <2>1. PICK n : n = task'[t].message
    OBVIOUS
  <2>2. PICK o : o = task'[u].message
    OBVIOUS
  <2>3. (t # new => MessageOK(n)) /\ (u # new => MessageOK(o))
    BY <1>2, <2>1, <2>2 DEF TasksOK
  <2>4. t # new /\ u # new => InOrder(n, o)'
    BY <1>2, <2>1, <2>2, MovesOrder DEF TasksOK
  <2>5. (t = new => n = m) /\ (u = new => o = m)
    BY <1>1, <2>1, <2>2
  <2>6. InOrder(n, o)'
    BY <1>3, <2>3, <2>4, <2>5
  <2> QED BY <2>1, <2>2, <2>6 DEF InOrder, Valid
<1>6. \A t \in Busy' :
        /\ task'[t].targets \subseteq Registered' /\ task'[t].targets # {}
        /\ task'[t] = [message |-> task'[t].message, targets |-> task'[t].targets]
  BY <1>1, <1>2 DEF TasksOK
<1> QED BY <1>1, <1>4, <1>5, <1>6 DEF TasksOK

(* A browser that shows the same stays sound, whatever becomes of the      *)
(* messages.                                                               *)
LEMMA SameShown ==
  ASSUME CopiesOK, TasksOK, BrowsersOK, Moves, NEW c \in Client, NEW b,
         b.shows = browser[c].shows, b.full = browser[c].full,
         b \in Browser
  PROVE  /\ BrowserOK(b)'
         /\ \A t \in Busy : Between(b, task[t].message)
         /\ \A m : (\E t \in Busy : m = task[t].message) => Between(b, m)'
         /\ \A m : m.copy = cached' /\ m.cut = clock' => Between(b, m)'
<1>1. BrowserOK(b)
  BY DEF BrowsersOK, ClientOK, BrowserOK
<1>2. BrowserOK(b)'
  BY <1>1, MovesBrowser
<1>3. \A t \in Busy : Between(b, task[t].message)
  BY DEF BrowsersOK, ClientOK, Between
<1>4. ASSUME NEW t \in Busy, NEW m, m = task[t].message PROVE Between(b, m)'
  BY <1>1, <1>3, <1>4, MovesBetween DEF TasksOK
<1>5. ASSUME NEW m, m.copy = cached', m.cut = clock' PROVE Between(b, m)'
  <2>1. b.full >= undone' => Under(b.shows, cached')
    BY <1>2 DEF BrowserOK
  <2>2. clock' <= b.full => Under(cached', b.shows)
    BY <1>2, MovesCopies, Orders DEF BrowserOK, Browser, CopiesOK
  <2> QED BY <1>5, <2>1, <2>2 DEF Between
<1> QED BY <1>2, <1>3, <1>4, <1>5

(* So every client that shows the same stays sound, if a message that is   *)
(* added says what the server has now.                                     *)
LEMMA SameClient ==
  ASSUME CopiesOK, TasksOK, BrowsersOK, Moves, NEW c \in Client,
         \/ Fewer
         \/ \E m, targets : Added(m, targets) /\ m.copy = cached' /\ m.cut = clock',
         browser'[c] \in Browser,
         browser'[c].shows = browser[c].shows, browser'[c].full = browser[c].full
  PROVE  ClientOK(c)'
<1>1. PICK b : b = browser'[c]
  OBVIOUS
<1>2. /\ BrowserOK(b)'
      /\ \A m : (\E t \in Busy : m = task[t].message) => Between(b, m)'
      /\ \A m : m.copy = cached' /\ m.cut = clock' => Between(b, m)'
  BY <1>1, SameShown
<1>3. ASSUME NEW t \in Busy' PROVE Between(browser[c], task[t].message)'
  <2>1. PICK m : m = task'[t].message
    OBVIOUS
  <2>2. \/ \E u \in Busy : m = task[u].message
        \/ m.copy = cached' /\ m.cut = clock'
    <3>1. CASE Fewer
      BY <2>1, <3>1 DEF Fewer, Busy
    <3>2. CASE \E n, targets : Added(n, targets) /\ n.copy = cached' /\ n.cut = clock'
      BY <2>1, <3>2 DEF Added, Busy
    <3> QED BY <3>1, <3>2
  <2>3. Between(b, m)'
    BY <1>2, <2>2
  <2> QED BY <1>1, <2>1, <2>3 DEF Between, Valid
<1>4. BrowserOK(browser[c])'
  BY <1>1, <1>2 DEF BrowserOK
<1> QED BY <1>3, <1>4 DEF ClientOK

-----------------------------------------------------------------------------
(* How clients stay covered.                                               *)

(* A full state is still to be cloned.                                     *)
LEMMA PendingCovers == ASSUME NEW c \in Client, Pending(c)' PROVE ClientCovered(c)'
BY DEF ClientCovered, Covered

(* What they show, and what was on its way to them, was taken back.        *)
LEMMA TakenBackCovers ==
  ASSUME CopiesOK, TasksOK, Moves, TakenBack, Fewer, NEW c \in Client, BrowserOK(browser[c]),
         browser'[c].full = browser[c].full
  PROVE  ClientCovered(c)'
<1>1. Fulls(c)' = {}
  BY DEF CopiesOK, TasksOK, MessageOK, TakenBack, Fewer, Fulls, Coming, Busy, Valid
<1>2. ~(browser'[c].full >= undone')
  BY DEF CopiesOK, BrowserOK, Browser, TakenBack
<1> QED BY <1>1, <1>2 DEF ClientCovered

(* They are gone.                                                          *)
LEMMA GoneCovers ==
  ASSUME NEW c \in Client, ~Connected(c)', \A t \in Busy' : c \notin task'[t].targets
  PROVE  ClientCovered(c)'
BY DEF ClientCovered, Fulls, Coming

(* A full state that was just cloned is on its way to them.                *)
LEMMA NewsCovers ==
  ASSUME NEW c \in Client, NEW m, NEW targets, Added(m, targets), c \in targets,
         m.kind = "full", m.copy = cached', Valid(m)'
  PROVE  ClientCovered(c)'
<1>1. PICK t \in Task : task'[t] = [message |-> m, targets |-> targets]
  BY DEF Added
<1>2. t \in Fulls(c)' /\ t \in Coming(c)' /\ \A p : t \in About(c, p)'
  BY <1>1 DEF Fulls, Coming, About, Busy, Idle, Valid
<1>3. ASSUME NEW s PROVE Told(c, s)'
  BY <1>1, <1>2 DEF Told
<1> QED
  <2>1. PICK s : s = browser'[c].shows
    OBVIOUS
  <2>2. Covered(c, browser[c].shows)'
    BY <1>3, <2>1 DEF Covered, Told
  <2>3. ASSUME NEW u \in Fulls(c)' PROVE Covered(c, task[u].message.copy)'
    <3>1. PICK r : r = task'[u].message.copy
      OBVIOUS
    <3> QED BY <1>3, <3>1 DEF Covered, Told
  <2> QED BY <2>2, <2>3 DEF ClientCovered

(* A client that nothing reaches stays covered if whatever was covered is. *)
LEMMA CoveredStays ==
  ASSUME undone' = undone, NEW c \in Client, ClientCovered(c),
         \A s : Covered(c, s) => Covered(c, s)',
         \A t \in Fulls(c)' : t \in Fulls(c) /\ task'[t].message = task[t].message,
         Connected(c)' => Connected(c),
         browser'[c].shows = browser[c].shows, browser'[c].full = browser[c].full,
         browser'[c].missed = browser[c].missed
  PROVE  ClientCovered(c)'
<1>1. Connected(c)' /\ browser'[c].full >= undone' /\ browser'[c].missed <= browser'[c].full
        => Covered(c, browser[c].shows)'
  <2>1. PICK s : s = browser[c].shows
    OBVIOUS
  <2>2. Connected(c)' /\ browser'[c].full >= undone'
          /\ browser'[c].missed <= browser'[c].full => Covered(c, s)'
    BY <2>1 DEF ClientCovered
  <2> QED BY <2>1, <2>2 DEF Covered, Told
<1>2. ASSUME NEW t \in Fulls(c)', task'[t].message.copy.rev >= browser'[c].shows.rev
      PROVE  Covered(c, task[t].message.copy)'
  <2>1. PICK s : s = task'[t].message.copy
    OBVIOUS
  <2>2. Covered(c, s)'
    BY <1>2, <2>1 DEF ClientCovered
  <2> QED BY <2>1, <2>2 DEF Covered, Told
<1> QED BY <1>1, <1>2 DEF ClientCovered

(* What was told or on its way still is.                                   *)
LEMMA StillTold ==
  ASSUME cached' = cached, undone' = undone, NEW c, NEW s, Told(c, s),
         \A t \in Coming(c) : /\ t \in Busy' /\ c \in task'[t].targets
                              /\ task'[t].message = task[t].message,
         writer.op = "patch" => writer' = writer
  PROVE  Told(c, s)'
<1>1. /\ Coming(c) \subseteq Coming(c)' /\ Fulls(c) \subseteq Fulls(c)'
      /\ \A p : About(c, p) \subseteq About(c, p)'
      /\ \A t \in Coming(c) : task'[t].message = task[t].message
  BY DEF Coming, Fulls, About, Valid
<1>2. Fulls(c) \subseteq Coming(c) /\ \A p : About(c, p) \subseteq Coming(c)
  BY DEF Fulls, About
<1>3. (writer.op = "patch" => writer'.op = "patch") /\ \A p : Patching(p) => Patching(p)'
  BY DEF Patching
<1> QED BY <1>1, <1>2, <1>3 DEF Told

(* So is a client whose messages are left alone.                           *)
LEMMA StillCovered ==
  ASSUME cached' = cached, undone' = undone, NEW c \in Client, ClientCovered(c), Fewer,
         \A t \in Busy : c \in task[t].targets => t \in Busy' /\ c \in task'[t].targets,
         writer.op = "patch" => writer' = writer,
         Pending(c) => Pending(c)',
         Connected(c)' => Connected(c),
         browser'[c].shows = browser[c].shows, browser'[c].full = browser[c].full,
         browser'[c].missed = browser[c].missed
  PROVE  ClientCovered(c)'
<1>1. ASSUME NEW s, Covered(c, s) PROVE Covered(c, s)'
  <2>1. \A t \in Coming(c) : /\ t \in Busy' /\ c \in task'[t].targets
                             /\ task'[t].message = task[t].message
    BY DEF Coming, Fewer, Busy
  <2> QED BY <1>1, <2>1, StillTold DEF Covered
<1>2. \A t \in Fulls(c)' : t \in Fulls(c) /\ task'[t].message = task[t].message
  BY DEF Fulls, Coming, Busy, Valid, Fewer
<1> QED BY <1>1, <1>2, CoveredStays

(* A patch that was just cloned tells them what the writer had to tell.    *)
LEMMA PatchCovers ==
  ASSUME cached' = cached, undone' = undone, NEW c \in Client, ClientCovered(c), TasksOK,
         writer.op = "patch", Pending(c) => Pending(c)',
         NEW m, NEW targets, Added(m, targets), c \in targets,
         m.kind = "patch", m.copy = cached, m.of = writer.player,
         conn' = conn, browser' = browser
  PROVE  ClientCovered(c)'
<1>1. PICK new \in Task :
        /\ task[new] = Idle /\ task'[new] = [message |-> m, targets |-> targets]
        /\ \A u \in Task \ {new} : task'[u] = task[u]
  BY DEF Added
<1>2. new \in Coming(c)' /\ new \notin Fulls(c)' /\ \A p : p = m.of => new \in About(c, p)'
  <2>1. new \in Busy' /\ task'[new].message = m /\ task'[new].targets = targets
    BY <1>1 DEF Busy, Idle
  <2> QED BY <2>1 DEF Coming, About, Fulls, Valid
<1>3. ASSUME NEW s, Covered(c, s) PROVE Covered(c, s)'
  <2>1. /\ Coming(c) \subseteq Coming(c)' /\ Fulls(c) \subseteq Fulls(c)'
        /\ \A p : About(c, p) \subseteq About(c, p)'
        /\ \A t \in Coming(c) : task'[t].message = task[t].message
    BY <1>1 DEF Coming, Fulls, About, Valid, Busy
  <2>2. Fulls(c) \subseteq Coming(c) /\ \A p : About(c, p) \subseteq Coming(c)
    BY DEF Fulls, About
  <2>3. task'[new].message.copy = cached
    BY <1>1
  <2>4. ASSUME Told(c, s) PROVE Told(c, s)'
    <3>1. \/ s.phase = cached'.phase /\ s.ticks = cached'.ticks
          \/ \E t \in Fulls(c)' : /\ task'[t].message.copy.phase = cached'.phase
                                 /\ task'[t].message.copy.ticks = cached'.ticks
      BY <2>1, <2>2, <2>4 DEF Told
    <3>2. ASSUME NEW p \in Player
          PROVE  \/ s.work[p] = cached'.work[p]
                 \/ \E t \in About(c, p)' : task'[t].message.copy.work[p] = cached'.work[p]
      <4>1. CASE p = m.of
        BY <1>2, <2>3, <4>1
      <4>2. CASE p # m.of
        BY <2>1, <2>2, <2>4, <4>2 DEF Told, Patching
      <4> QED BY <4>1, <4>2
    <3>3. \E t \in Coming(c)' : task'[t].message.copy.rev = cached'.rev
      BY <1>2, <2>3
    <3> QED BY <3>1, <3>2, <3>3 DEF Told
  <2> QED BY <1>3, <2>4 DEF Covered
<1>4. \A t \in Fulls(c)' : t \in Fulls(c) /\ task'[t].message = task[t].message
  BY <1>1, <1>2 DEF Fulls, Coming, Busy, Valid
<1>5. Connected(c)' => Connected(c)
  BY DEF Connected
<1> QED BY <1>3, <1>4, <1>5, CoveredStays

-----------------------------------------------------------------------------
(* What the reducer makes of a message.                                    *)

(* It drops what has a lower revision, and else takes what it is told.     *)
LEMMA ReducerTakes ==
  ASSUME NEW b \in Browser, NEW m, m.copy \in Session, m.cut \in Nat,
         m.kind \in {"full", "patch"}, m.kind = "patch" => m.of \in Player,
         NEW r, r = Received(b, m)
  PROVE  /\ r \in Browser
         /\ m.copy.rev < b.shows.rev =>
              r.shows = b.shows /\ r.full = b.full /\ m.cut <= r.missed /\ b.missed <= r.missed
              /\ r.status = b.status
         /\ m.copy.rev >= b.shows.rev => r.missed = b.missed /\
              IF m.kind = "full" THEN r.shows = m.copy /\ r.full = m.cut
              ELSE /\ r.full = b.full /\ r.status = b.status
                   /\ r.shows.rev = m.copy.rev
                   /\ r.shows.phase = b.shows.phase /\ r.shows.ticks = b.shows.ticks
                   /\ \A p \in Player : r.shows.work[p] =
                        IF p = m.of THEN m.copy.work[p] ELSE b.shows.work[p]
<1>1. b.shows \in Session /\ b.missed \in Nat
  BY DEF Browser
<1>2. b.shows.rev \in Nat /\ m.copy.rev \in Nat
  BY <1>1, Fields
<1>3. CASE m.copy.rev < b.shows.rev
  <2> DEFINE k == 
       IF m.copy.rev < b.shows.rev /\ m.cut > b.missed THEN m.cut ELSE b.missed
  <2>1. r = [b EXCEPT !.missed = k]
    <3>1. ~IsCurrent(b, m)
      BY <1>2, <1>3 DEF IsCurrent
    <3> QED BY <3>1 DEF Received
  <2>2. k \in Nat /\ m.cut <= k /\ b.missed <= k
    BY <1>1, <1>3
  <2> HIDE DEF k
  <2> QED BY <1>1, <1>2, <1>3, <2>1, <2>2 DEF Browser
<1>4. CASE m.copy.rev >= b.shows.rev /\ m.kind = "full"
  <2>1. r = [b EXCEPT !.shows = m.copy, !.status = "Connected", !.full = m.cut]
    BY <1>2, <1>4 DEF Received, IsCurrent
  <2>2. r \in Browser
    BY <2>1 DEF Browser
  <2>3. r.shows = m.copy /\ r.full = m.cut /\ r.missed = b.missed
    BY <2>1 DEF Browser
  <2> QED BY <1>2, <1>4, <2>2, <2>3
<1>5. CASE m.copy.rev >= b.shows.rev /\ m.kind = "patch"
  <2> DEFINE w == [b.shows EXCEPT !.rev = m.copy.rev, !.work[m.of] = m.copy.work[m.of]]
  <2>1. r = [b EXCEPT !.shows = w]
    BY <1>1, <1>2, <1>5 DEF Received, IsCurrent, Browser
  <2>2. /\ w \in Session /\ w.rev = m.copy.rev
        /\ w.phase = b.shows.phase /\ w.ticks = b.shows.ticks
        /\ \A p \in Player : w.work[p] =
             IF p = m.of THEN m.copy.work[p] ELSE b.shows.work[p]
    BY <1>1, <1>5 DEF Session
  <2> HIDE DEF w
  <2>3. r \in Browser /\ r.shows = w /\ r.full = b.full /\ r.missed = b.missed
        /\ r.status = b.status
    BY <2>1, <2>2 DEF Browser
  <2> QED BY <1>2, <1>5, <2>2, <2>3
<1> QED BY <1>2, <1>3, <1>4, <1>5

(* What is shown then includes what the message says.                      *)
Includes(m, s) ==
  /\ m.copy.rev <= s.rev
  /\ m.kind = "full" => Under(m.copy, s)
  /\ m.kind = "patch" => m.copy.work[m.of] <= s.work[m.of]

(* A sound browser stays sound, shows no less, and includes the message    *)
(* unless it dropped one that was cloned after what it shows.              *)
LEMMA ReducerKeeps ==
  ASSUME CopiesOK, NEW m, MessageOK(m), NEW b, BrowserOK(b), Between(b, m),
         NEW r, r = Received(b, m)
  PROVE  /\ BrowserOK(r) /\ m.copy.rev <= r.shows.rev /\ b.shows.rev <= r.shows.rev
         /\ r.full >= undone /\ Valid(m) /\ r.missed <= r.full => Includes(m, r.shows)
<1>1. /\ b \in Browser /\ b.shows \in Session /\ b.full \in Nat /\ b.missed \in Nat
      /\ m.copy \in Session /\ m.cut \in Nat /\ m.kind \in {"full", "patch"}
      /\ m.kind = "patch" => m.of \in Player
      /\ clock \in Nat /\ undone \in Nat /\ cached \in Session /\ stored \in Session
  BY DEF BrowserOK, Browser, MessageOK, CopiesOK
<1>2. /\ b.shows.rev \in Nat /\ m.copy.rev \in Nat /\ cached.rev \in Nat
  BY <1>1, Fields
<1>3. CASE m.copy.rev < b.shows.rev
  <2>1. /\ r \in Browser /\ r.shows = b.shows /\ r.full = b.full
        /\ m.cut <= r.missed
    BY <1>1, <1>3, ReducerTakes
  <2>2. r.full \in Nat /\ r.missed \in Nat
    BY <2>1 DEF Browser
  <2>3. BrowserOK(r)
    BY <2>1 DEF BrowserOK
  <2>4. ASSUME r.full >= undone, Valid(m), r.missed <= r.full PROVE Includes(m, r.shows)
    <3>1. Under(m.copy, b.shows)
      BY <1>1, <2>1, <2>2, <2>4 DEF Between
    <3> QED BY <1>1, <1>2, <1>3, <2>1, <3>1 DEF Includes, Under
  <2> QED BY <1>2, <1>3, <2>1, <2>3, <2>4
<1>4. CASE m.copy.rev >= b.shows.rev /\ m.kind = "full"
  <2>1. r \in Browser /\ r.shows = m.copy /\ r.full = m.cut
    BY <1>1, <1>4, ReducerTakes
  <2>2. BrowserOK(r)
    <3>1. r.full >= undone => Earlier(m.copy, cached)
      BY <2>1 DEF MessageOK, Valid
    <3> QED BY <1>1, <2>1, <3>1, Orders DEF BrowserOK, MessageOK
  <2>3. Includes(m, r.shows)
    BY <1>1, <1>2, <1>4, <2>1, Orders DEF Includes
  <2> QED BY <1>2, <1>4, <2>1, <2>2, <2>3
<1>5. CASE m.copy.rev >= b.shows.rev /\ m.kind = "patch"
  <2>1. /\ r \in Browser /\ r.full = b.full /\ r.shows.rev = m.copy.rev
        /\ r.shows.phase = b.shows.phase /\ r.shows.ticks = b.shows.ticks
        /\ \A p \in Player : r.shows.work[p] =
             IF p = m.of THEN m.copy.work[p] ELSE b.shows.work[p]
    BY <1>1, <1>5, ReducerTakes
  <2>2. Earlier(m.copy, cached) /\ Valid(m)
    BY <1>5 DEF MessageOK, Valid
  <2>3. m.copy.rev <= cached.rev /\ Under(m.copy, cached)
        /\ (cached.rev <= m.copy.rev => m.copy = cached)
    BY <1>1, <2>2, Orders
  <2>4. r.full >= undone => r.shows.rev <= cached.rev /\ Under(r.shows, cached)
    BY <1>1, <2>1, <2>3 DEF BrowserOK, Under
  <2>5. r.full = clock => r.shows = cached
    <3> SUFFICES ASSUME r.full = clock PROVE r.shows = cached
      OBVIOUS
    <3>1. b.shows = cached /\ m.copy = cached
      BY <1>2, <1>5, <2>1, <2>3 DEF BrowserOK
    <3>2. r.shows \in Session
      BY <2>1 DEF Browser
    <3> QED BY <1>1, <2>1, <3>1, <3>2 DEF Session
  <2>6. BrowserOK(r)
    BY <2>1, <2>4, <2>5 DEF BrowserOK
  <2>7. Includes(m, r.shows)
    BY <1>1, <1>2, <1>5, <2>1, Fields DEF Includes
  <2> QED BY <1>2, <1>5, <2>1, <2>6, <2>7
<1> QED BY <1>1, <1>2, <1>3, <1>4, <1>5

(* What it shows then is between the other messages, as before.            *)
LEMMA ReducerBetween ==
  ASSUME CopiesOK, NEW m, MessageOK(m), NEW b, BrowserOK(b), Between(b, m),
         NEW r, r = Received(b, m),
         NEW n, MessageOK(n), Between(b, n), InOrder(m, n), InOrder(n, m)
  PROVE  Between(r, n)
<1>1. /\ b \in Browser /\ b.shows \in Session /\ b.full \in Nat /\ b.missed \in Nat
      /\ m.copy \in Session /\ m.cut \in Nat /\ m.kind \in {"full", "patch"}
      /\ n.copy \in Session /\ n.cut \in Nat
      /\ m.kind = "patch" => m.of \in Player
      /\ undone \in Nat
  BY DEF BrowserOK, Browser, MessageOK, CopiesOK
<1>2. b.shows.rev \in Nat /\ m.copy.rev \in Nat /\ n.copy.rev \in Nat
  BY <1>1, Fields
<1>3. SUFFICES ASSUME r.full >= undone, Valid(n)
               PROVE  /\ r.shows.rev <= n.copy.rev => Under(r.shows, n.copy)
                      /\ n.cut <= r.full => Under(n.copy, r.shows)
  BY DEF Between
<1>4. CASE m.copy.rev < b.shows.rev
  <2>1. r.shows = b.shows /\ r.full = b.full
    BY <1>1, <1>4, ReducerTakes
  <2> QED BY <1>3, <2>1 DEF Between
<1>5. Valid(m) => /\ m.copy.rev <= n.copy.rev => Under(m.copy, n.copy)
                  /\ n.cut <= m.cut => Under(n.copy, m.copy)
  <2>1. Valid(m) => \/ m.cut <= n.cut /\ Earlier(m.copy, n.copy)
                    \/ n.cut <= m.cut /\ Earlier(n.copy, m.copy)
    BY <1>1, <1>3 DEF InOrder
  <2>2. Valid(m) /\ n.cut <= m.cut => Earlier(n.copy, m.copy)
    BY <1>3 DEF InOrder
  <2> QED BY <1>1, <1>2, <2>1, <2>2, Orders
<1>6. CASE m.copy.rev >= b.shows.rev /\ m.kind = "full"
  <2>1. r.shows = m.copy /\ r.full = m.cut
    BY <1>1, <1>6, ReducerTakes
  <2>2. Valid(m)
    BY <1>3, <2>1 DEF Valid
  <2> QED BY <1>5, <2>1, <2>2
<1>7. CASE m.copy.rev >= b.shows.rev /\ m.kind = "patch"
  <2>1. /\ r.full = b.full /\ r.shows.rev = m.copy.rev
        /\ r.shows.phase = b.shows.phase /\ r.shows.ticks = b.shows.ticks
        /\ \A p \in Player : r.shows.work[p] =
             IF p = m.of THEN m.copy.work[p] ELSE b.shows.work[p]
    BY <1>1, <1>7, ReducerTakes
  <2>2. Valid(m)
    BY <1>7 DEF Valid
  <2>3. Under(b.shows, m.copy)
    BY <1>3, <1>7, <2>1, <2>2 DEF Between
  <2>4. r.shows.rev <= n.copy.rev => Under(b.shows, n.copy) /\ Under(m.copy, n.copy)
    BY <1>2, <1>3, <1>5, <1>7, <2>1, <2>2 DEF Between
  <2>5. n.cut <= r.full => Under(n.copy, b.shows)
    BY <1>3, <2>1 DEF Between
  <2>6. r.shows.rev <= n.copy.rev => Under(r.shows, n.copy)
    BY <2>1, <2>4 DEF Under
  <2>7. Under(b.shows, r.shows)
    BY <1>1, <2>1, <2>3, Fields DEF Under
  <2>8. r.shows \in Session
    BY <1>1, ReducerTakes DEF Browser
  <2>9. n.cut <= r.full => Under(n.copy, r.shows)
    BY <1>1, <2>5, <2>7, <2>8, Orders
  <2> QED BY <2>6, <2>9
<1> QED BY <1>1, <1>2, <1>4, <1>6, <1>7

(* A later copy lacks no more than an earlier one.                         *)
LEMMA LaterTold ==
  ASSUME CopiesOK, NEW c, NEW s \in Session, NEW r \in Session, Told(c, s),
         s.rev <= r.rev, r.rev <= cached.rev, Under(s, r), Under(r, cached)
  PROVE  Told(c, r)
<1>1. /\ s.phase = cached.phase => r.phase = cached.phase
      /\ s.ticks = cached.ticks => r.ticks = cached.ticks
      /\ s.rev = cached.rev => r.rev = cached.rev
      /\ \A p \in Player : s.work[p] = cached.work[p] => r.work[p] = cached.work[p]
  BY Fields DEF CopiesOK, Under
<1> QED BY <1>1 DEF Told

(* A copy that includes a message can do without it.                       *)
LEMMA ToldWithout ==
  ASSUME CopiesOK, cached' = cached, undone' = undone, writer' = writer,
         NEW c, NEW s \in Session, NEW t \in Busy, Told(c, s),
         s.rev <= cached.rev, Under(s, cached),
         MessageOK(task[t].message), Valid(task[t].message) => Includes(task[t].message, s),
         \A u \in Coming(c) \ {t} : /\ u \in Busy' /\ c \in task'[u].targets
                                    /\ task'[u].message = task[u].message
  PROVE  Told(c, s)'
<1>1. /\ Coming(c) \ {t} \subseteq Coming(c)' /\ Fulls(c) \ {t} \subseteq Fulls(c)'
      /\ \A p : About(c, p) \ {t} \subseteq About(c, p)'
      /\ \A u \in Coming(c) \ {t} : task'[u].message = task[u].message
  BY DEF Coming, Fulls, About, Valid
<1>2. Fulls(c) \subseteq Coming(c) /\ \A p : About(c, p) \subseteq Coming(c)
  BY DEF Fulls, About
<1> DEFINE m == task[t].message
<1>3. /\ m.copy \in Session /\ m.kind \in {"full", "patch"}
      /\ Valid(m) => Earlier(m.copy, cached) /\ m.copy.rev <= s.rev
      /\ Valid(m) /\ m.kind = "full" => Under(m.copy, s)
      /\ Valid(m) /\ m.kind = "patch" => m.of \in Player /\ m.copy.work[m.of] <= s.work[m.of]
  BY DEF MessageOK, Includes
<1>4. t \in Coming(c) => Valid(m)
  BY DEF Coming
<1>5. \/ s.phase = cached'.phase /\ s.ticks = cached'.ticks
      \/ \E u \in Fulls(c)' : /\ task'[u].message.copy.phase = cached'.phase
                             /\ task'[u].message.copy.ticks = cached'.ticks
  <2>1. CASE /\ t \in Fulls(c)
             /\ m.copy.phase = cached.phase /\ m.copy.ticks = cached.ticks
    <3>1. Under(m.copy, s)
      BY <1>2, <1>3, <1>4, <2>1 DEF Fulls
    <3> QED BY <1>3, <2>1, <3>1, Fields DEF CopiesOK, Under
  <2>2. CASE ~(/\ t \in Fulls(c)
               /\ m.copy.phase = cached.phase /\ m.copy.ticks = cached.ticks)
    BY <1>1, <1>2, <2>2 DEF Told
  <2> QED BY <2>1, <2>2
<1>6. ASSUME NEW p \in Player
      PROVE  \/ s.work[p] = cached'.work[p] \/ Patching(p)'
             \/ \E u \in About(c, p)' : task'[u].message.copy.work[p] = cached'.work[p]
  <2>1. CASE t \in About(c, p) /\ m.copy.work[p] = cached.work[p]
    <3>1. m.copy.work[p] <= s.work[p]
      BY <1>2, <1>3, <1>4, <2>1 DEF About, Under
    <3> QED BY <1>3, <2>1, <3>1, Fields DEF CopiesOK, Under
  <2>2. CASE ~(t \in About(c, p) /\ m.copy.work[p] = cached.work[p])
    BY <1>1, <1>2, <2>2 DEF Told, Patching
  <2> QED BY <2>1, <2>2
<1>7. \/ s.rev = cached'.rev \/ writer'.op = "patch"
      \/ \E u \in Coming(c)' : task'[u].message.copy.rev = cached'.rev
  <2>1. CASE t \in Coming(c) /\ m.copy.rev = cached.rev
    BY <1>3, <1>4, <2>1, Fields DEF CopiesOK
  <2>2. CASE ~(t \in Coming(c) /\ m.copy.rev = cached.rev)
    BY <1>1, <2>2 DEF Told
  <2> QED BY <2>1, <2>2
<1> QED BY <1>5, <1>6, <1>7 DEF Told, Patching

-----------------------------------------------------------------------------
(* A broadcast is sent: each of its clients receives it.                   *)
LEMMA ReceivingKeeps ==
  ASSUME CopiesOK, TasksOK, BrowsersOK, ClientsCovered, NEW t \in Busy,
         UNCHANGED <<copies, writer, marks, conn>>, Fewer,
         \A u \in Busy \ {t} : u \in Busy' /\ task'[u] = task[u],
         task'[t] = Idle,
         NEW c \in Client, c \in task[t].targets,
         browser'[c] = Received(browser[c], task[t].message)
  PROVE  ClientOK(c)' /\ ClientCovered(c)'
<1>1. PICK m : m = task[t].message
  OBVIOUS
<1>2. PICK b : b = browser[c]
  OBVIOUS
<1>3. PICK r : r = browser'[c]
  OBVIOUS
<1>4. /\ MessageOK(m) /\ BrowserOK(b) /\ Between(b, m) /\ r = Received(b, m)
      /\ \A u \in Busy : /\ MessageOK(task[u].message) /\ Between(b, task[u].message)
                         /\ InOrder(m, task[u].message) /\ InOrder(task[u].message, m)
  BY <1>1, <1>2, <1>3 DEF TasksOK, BrowsersOK, ClientOK
<1>5. /\ BrowserOK(r) /\ m.copy.rev <= r.shows.rev /\ b.shows.rev <= r.shows.rev
      /\ r.full >= undone /\ Valid(m) /\ r.missed <= r.full => Includes(m, r.shows)
  BY <1>4, ReducerKeeps
<1>6. \A u \in Busy : Between(r, task[u].message)
  BY <1>4, ReducerBetween
<1>7. /\ cached' = cached /\ stored' = stored /\ clock' = clock /\ undone' = undone
      /\ writer' = writer /\ dirty' = dirty /\ conn' = conn
  BY DEF copies, marks
<1>8. Busy' \subseteq Busy /\ \A u \in Busy' : task'[u].message = task[u].message
  BY DEF Busy, Fewer
<1>9. ClientOK(c)'
  <2>1. BrowserOK(browser[c])'
    BY <1>3, <1>5, <1>7 DEF BrowserOK
  <2>2. \A u \in Busy' : Between(browser[c], task[u].message)'
    BY <1>3, <1>6, <1>7, <1>8 DEF Between, Valid
  <2> QED BY <2>1, <2>2 DEF ClientOK
<1>10. /\ b \in Browser /\ r \in Browser /\ b.shows \in Session /\ r.shows \in Session
       /\ m.copy \in Session /\ m.cut \in Nat /\ m.kind \in {"full", "patch"}
       /\ m.kind = "patch" => m.of \in Player
       /\ b.missed \in Nat /\ r.missed \in Nat /\ r.full \in Nat /\ b.full \in Nat
       /\ undone \in Nat /\ cached \in Session
       /\ b.shows.rev \in Nat /\ r.shows.rev \in Nat /\ m.copy.rev \in Nat
       /\ cached.rev \in Nat
  <2>1. /\ b \in Browser /\ r \in Browser /\ b.shows \in Session /\ r.shows \in Session
        /\ m.copy \in Session /\ m.cut \in Nat /\ m.kind \in {"full", "patch"}
        /\ m.kind = "patch" => m.of \in Player
        /\ b.missed \in Nat /\ r.missed \in Nat /\ r.full \in Nat /\ b.full \in Nat
        /\ undone \in Nat /\ cached \in Session
    BY <1>4, <1>5 DEF MessageOK, BrowserOK, Browser, CopiesOK
  <2> QED BY <2>1, Fields
<1>11. \A u \in Coming(c) \ {t} : /\ u \in Busy' /\ c \in task'[u].targets
                                  /\ task'[u].message = task[u].message
  BY DEF Coming
<1>12. ASSUME NEW s \in Session, Told(c, s), s.rev <= cached.rev, Under(s, cached),
              Valid(m) => Includes(m, s)
       PROVE  Told(c, s)'
  BY <1>1, <1>4, <1>7, <1>11, <1>12, ToldWithout
<1>13. Pending(c)' <=> Pending(c)
  BY <1>7 DEF Pending
<1>14. ClientCovered(c)
  BY DEF ClientsCovered
<1>15. ASSUME Connected(c)', r.full >= undone, r.missed <= r.full
       PROVE  Covered(c, r.shows)'
  <2>1. CASE Pending(c)
    BY <1>13, <2>1 DEF Covered
  <2>2. CASE ~Pending(c)
    <3>1. r.shows.rev <= cached.rev /\ Under(r.shows, cached)
      BY <1>5, <1>15 DEF BrowserOK
    <3>2. Valid(m) => Includes(m, r.shows)
      BY <1>5, <1>15
    <3>3. Told(c, r.shows)
      <4>1. CASE m.copy.rev >= b.shows.rev /\ m.kind = "full"
        <5>1. r.shows = m.copy /\ r.full = m.cut
          BY <1>4, <1>10, <4>1, ReducerTakes
        <5>2. t \in Fulls(c)
          BY <1>1, <1>15, <4>1, <5>1 DEF Fulls, Coming, Valid
        <5> QED BY <1>1, <1>2, <1>14, <2>2, <4>1, <5>1, <5>2 DEF ClientCovered, Covered
      <4>2. CASE ~(m.copy.rev >= b.shows.rev /\ m.kind = "full")
        <5>1. r.full = b.full /\ r.status = b.status /\ b.missed <= r.missed
              /\ r.shows.phase = b.shows.phase /\ r.shows.ticks = b.shows.ticks
          BY <1>4, <1>10, <4>2, ReducerTakes
        <5>2. Connected(c) /\ b.full >= undone /\ b.missed <= b.full
          BY <1>2, <1>3, <1>7, <1>10, <1>15, <5>1 DEF Connected
        <5>3. Told(c, b.shows)
          BY <1>2, <1>14, <2>2, <5>2 DEF ClientCovered, Covered
        <5>4. Under(b.shows, r.shows)
          <6>1. CASE m.copy.rev < b.shows.rev
            <7>1. r.shows = b.shows
              BY <1>4, <1>10, <6>1, ReducerTakes
            <7> QED BY <1>10, <7>1, Orders
          <6>2. CASE m.copy.rev >= b.shows.rev
            <7>1. /\ \A p \in Player : r.shows.work[p] =
                       IF p = m.of THEN m.copy.work[p] ELSE b.shows.work[p]
                  /\ m.kind = "patch"
              BY <1>4, <1>10, <4>2, <6>2, ReducerTakes
            <7>2. Under(b.shows, m.copy)
              BY <1>4, <5>2, <6>2, <7>1 DEF Between, Valid
            <7> QED BY <1>10, <5>1, <7>1, <7>2, Fields DEF Under
          <6> QED BY <1>10, <6>1, <6>2
        <5> QED BY <1>5, <1>10, <3>1, <5>3, <5>4, LaterTold
      <4> QED BY <4>1, <4>2
    <3> QED BY <1>10, <1>12, <3>1, <3>2, <3>3 DEF Covered
  <2> QED BY <2>1, <2>2
<1>16. ASSUME NEW u \in Fulls(c)', task'[u].message.copy.rev >= r.shows.rev
       PROVE  Covered(c, task[u].message.copy)'
  <2>1. PICK n : n = task'[u].message
    OBVIOUS
  <2>2. u \in Fulls(c) /\ n = task[u].message /\ u # t
    BY <1>7, <1>8, <2>1 DEF Fulls, Coming, Busy, Valid, Fewer
  <2>3. /\ MessageOK(n) /\ Valid(n) /\ InOrder(m, n) /\ InOrder(n, m) /\ n.copy \in Session
        /\ n.cut \in Nat
    BY <1>4, <2>2 DEF Fulls, Coming, MessageOK
  <2>4. n.copy.rev \in Nat /\ m.copy.rev <= n.copy.rev /\ b.shows.rev <= n.copy.rev
    BY <1>5, <1>10, <1>16, <2>1, <2>3, Fields
  <2>5. n.copy.rev <= cached.rev /\ Under(n.copy, cached)
    BY <1>10, <2>3, Orders DEF MessageOK
  <2>6. Valid(m) => Includes(m, n.copy)
    <3>1. Valid(m) => Under(m.copy, n.copy)
      BY <1>10, <2>3, <2>4, Orders DEF InOrder
    <3> QED BY <1>10, <2>4, <3>1 DEF Includes, Under
  <2>7. Covered(c, n.copy)
    BY <1>2, <1>14, <2>2, <2>4 DEF ClientCovered
  <2>8. Covered(c, n.copy)'
    BY <1>12, <1>13, <2>3, <2>5, <2>6, <2>7 DEF Covered
  <2> QED BY <2>1, <2>8 DEF Covered, Told
<1>17. Connected(c)' /\ browser'[c].full >= undone' /\ browser'[c].missed <= browser'[c].full
         => Covered(c, browser[c].shows)'
  BY <1>3, <1>7, <1>15 DEF Covered, Told
<1> QED BY <1>3, <1>9, <1>16, <1>17 DEF ClientCovered

-----------------------------------------------------------------------------
(* The steps.  Each moves the copies, leaves fewer broadcasts or adds one, *)
(* and leaves the clients covered.                                         *)

(* The browsers of a sound state are browsers.                             *)
LEMMA Browsers ==
  ASSUME BrowsersOK
  PROVE  \A c \in Client :
           /\ BrowserOK(browser[c]) /\ browser[c] \in Browser
           /\ [browser[c] EXCEPT !.status = "Offline"] \in Browser
           /\ [browser[c] EXCEPT !.status = "Connecting"] \in Browser
<1>1. \A c \in Client : BrowserOK(browser[c])
  BY DEF BrowsersOK, ClientOK
<1>2. \A c \in Client : browser[c] \in Browser
  BY <1>1 DEF BrowserOK
<1>3. ASSUME NEW b \in Browser
      PROVE  /\ [b EXCEPT !.status = "Offline"] \in Browser
             /\ [b EXCEPT !.status = "Connecting"] \in Browser
  BY DEF Browser
<1> QED BY <1>1, <1>2, <1>3

(* A step that leaves the messages and the browsers alone keeps both sound.*)
LEMMA NothingTold ==
  ASSUME BInv, Moves, task' = task, browser' = browser,
         \A p \in Client : conn[p] = "attached" => conn'[p] = "attached"
  PROVE  Fewer /\ CopiesOK' /\ TasksOK' /\ BrowsersOK'
<1>1. Fewer
  BY SameTasks DEF BInv
<1>2. CopiesOK'
  BY MovesCopies DEF BInv
<1>3. TasksOK'
  <2>1. \A t \in Busy' : task'[t].targets \subseteq Registered'
    BY DEF BInv, TasksOK, Registered, Busy
  <2> QED BY <1>1, <2>1, FewerTasks DEF BInv
<1>4. ASSUME NEW c \in Client PROVE ClientOK(c)'
  BY <1>1, Browsers, SameClient DEF BInv
<1> QED BY <1>1, <1>2, <1>3, <1>4 DEF BrowsersOK

(* A tick is to be broadcast.                                              *)
LEMMA TickStep == ASSUME BInv, Tick PROVE BInv'
<1> DEFINE s == [Touched(cached) EXCEPT !.ticks = @ + 1]
<1>1. cached \in Session /\ stored \in Session /\ Earlier(stored, cached) /\ clock \in Nat
      /\ cached.ticks < MaxTicks
  BY DEF BInv, CopiesOK, Tick
<1>2. /\ s \in Session /\ s.rev = cached.rev + 1 /\ s.ticks = cached.ticks + 1
      /\ s.phase = cached.phase /\ s.work = cached.work
  <2>1. /\ Touched(cached) \in Session /\ Touched(cached).rev = cached.rev + 1
        /\ Touched(cached).phase = cached.phase /\ Touched(cached).ticks = cached.ticks
        /\ Touched(cached).work = cached.work
    BY <1>1, TouchedIsLater
  <2> QED BY <1>1, <2>1, Bounds DEF Session
<1>3. Earlier(cached, s) /\ cached.rev < s.rev
  BY <1>1, <1>2, Fields DEF Earlier, Under
<1>4. /\ cached' = s /\ clock' = clock + 1 /\ undone' = undone
      /\ stored' = s \/ stored' = stored
      /\ "this" \in dirty' /\ dirty' \subseteq {"this", "other"} /\ drains' = 1
      /\ writer' = writer /\ writer = NoWriter /\ task' = task /\ conn' = conn
      /\ browser' = browser
  <2> HIDE DEF s
  <2>1. s # cached
    BY <1>1, <1>2, Fields
  <2>2. Cache(s, FALSE) /\ (stored' = s \/ stored' = stored) /\ Mark("this")
        /\ UNCHANGED <<writer, task, conn, browser>> /\ writer = NoWriter
    BY DEF Tick, s, Free
  <2> QED BY <2>1, <2>2 DEF Cache, Mark, BInv, MarksOK
<1> HIDE DEF s
<1>5. Moves
  BY <1>1, <1>2, <1>3, <1>4, Orders DEF Moves, GoesOn
<1>6. CopiesOK' /\ TasksOK' /\ BrowsersOK'
  BY <1>4, <1>5, NothingTold
<1>7. MarksOK' /\ WriterOK'
  BY <1>4 DEF BInv, MarksOK, WriterOK, NoWriter
<1>8. ClientsCovered'
  BY <1>4, PendingCovers DEF ClientsCovered, Pending
<1> QED BY <1>6, <1>7, <1>8 DEF BInv

(* A command's patch is to be told by its writer.                          *)
LEMMA CommandStep == ASSUME BInv, NEW p \in Player, Command(p) PROVE BInv'
<1> DEFINE s == [Touched(cached) EXCEPT !.work[p] = @ + 1]
<1>1. cached \in Session /\ stored \in Session /\ Earlier(stored, cached) /\ clock \in Nat
      /\ cached.work[p] < MaxWork
  BY DEF BInv, CopiesOK, Command
<1>2. /\ s \in Session /\ s.rev = cached.rev + 1 /\ s.ticks = cached.ticks
      /\ s.phase = cached.phase
      /\ s.work = [cached.work EXCEPT ![p] = @ + 1]
  <2>1. /\ Touched(cached) \in Session /\ Touched(cached).rev = cached.rev + 1
        /\ Touched(cached).phase = cached.phase /\ Touched(cached).ticks = cached.ticks
        /\ Touched(cached).work = cached.work
    BY <1>1, TouchedIsLater
  <2> QED BY <1>1, <2>1, Bounds DEF Session
<1>3. Earlier(cached, s) /\ cached.rev < s.rev
      /\ \A q \in Player : q # p => s.work[q] = cached.work[q]
  BY <1>1, <1>2, Fields DEF Earlier, Under, Session
<1>4. /\ cached' = s /\ clock' = clock + 1 /\ undone' = undone
      /\ writer' = [op |-> "patch", player |-> p, before |-> cached, after |-> s]
      /\ stored' = stored /\ dirty' = dirty /\ drains' = drains
      /\ writer = NoWriter /\ task' = task /\ conn' = conn /\ browser' = browser
  <2> HIDE DEF s
  <2>1. s # cached
    BY <1>1, <1>2, Fields
  <2>2. Change("patch", p, s) /\ writer = NoWriter
    BY DEF Command, s, Free
  <2> QED BY <2>1, <2>2 DEF Change, Cache, marks
<1> HIDE DEF s
<1>5. Moves
  BY <1>1, <1>2, <1>3, <1>4, Orders DEF Moves, GoesOn
<1>6. CopiesOK' /\ TasksOK' /\ BrowsersOK'
  BY <1>4, <1>5, NothingTold
<1>7. MarksOK' /\ WriterOK'
  BY <1>1, <1>2, <1>4 DEF BInv, MarksOK, WriterOK
<1>8. ASSUME NEW c \in Client PROVE ClientCovered(c)'
  <2>1. Pending(c) => Pending(c)'
    BY <1>4 DEF Pending, NoWriter
  <2>2. /\ Coming(c)' = Coming(c) /\ Fulls(c)' = Fulls(c)
        /\ \A q : About(c, q)' = About(c, q)
    BY <1>4 DEF Coming, Fulls, About, Busy, Valid
  <2>3. writer'.op = "patch" /\ Patching(p)' /\ \A q : ~Patching(q)
    BY <1>4 DEF Patching, NoWriter
  <2>4. ASSUME NEW r, Told(c, r) PROVE Told(c, r)'
    <3>1. ASSUME NEW q \in Player
          PROVE  \/ r.work[q] = cached'.work[q] \/ Patching(q)'
                 \/ \E t \in About(c, q)' : task'[t].message.copy.work[q] = cached'.work[q]
      BY <1>3, <1>4, <2>2, <2>3, <2>4 DEF Told
    <3>2. \/ r.phase = cached'.phase /\ r.ticks = cached'.ticks
          \/ \E t \in Fulls(c)' : /\ task'[t].message.copy.phase = cached'.phase
                                 /\ task'[t].message.copy.ticks = cached'.ticks
      BY <1>2, <1>4, <2>2, <2>4 DEF Told
    <3> QED BY <2>3, <3>1, <3>2 DEF Told
  <2>5. ASSUME NEW r, Covered(c, r) PROVE Covered(c, r)'
    BY <2>1, <2>4, <2>5 DEF Covered
  <2>6. Connected(c)' => Connected(c)
    BY <1>4 DEF Connected
  <2> QED BY <1>4, <2>2, <2>5, <2>6, CoveredStays DEF BInv, ClientsCovered, Fulls
<1> QED BY <1>6, <1>7, <1>8 DEF BInv, ClientsCovered

(* A change of phase will be marked by its writer.                         *)
LEMMA ChangePhaseStep == ASSUME BInv, ChangePhase PROVE BInv'
<1> DEFINE s == [Touched(cached) EXCEPT !.phase = @ + 1]
<1>1. cached \in Session /\ stored \in Session /\ Earlier(stored, cached) /\ clock \in Nat
      /\ cached.phase < MaxPhase
  BY DEF BInv, CopiesOK, ChangePhase
<1>2. /\ s \in Session /\ s.rev = cached.rev + 1 /\ s.ticks = cached.ticks
      /\ s.phase = cached.phase + 1 /\ s.work = cached.work
  <2>1. /\ Touched(cached) \in Session /\ Touched(cached).rev = cached.rev + 1
        /\ Touched(cached).phase = cached.phase /\ Touched(cached).ticks = cached.ticks
        /\ Touched(cached).work = cached.work
    BY <1>1, TouchedIsLater
  <2> QED BY <1>1, <2>1, Bounds DEF Session
<1>3. Earlier(cached, s) /\ cached.rev < s.rev
  BY <1>1, <1>2, Fields DEF Earlier, Under
<1>4. /\ cached' = s /\ clock' = clock + 1 /\ undone' = undone
      /\ writer' = [op |-> "mark", player |-> Nobody, before |-> cached, after |-> s]
      /\ stored' = stored /\ dirty' = dirty /\ drains' = drains
      /\ task' = task /\ conn' = conn /\ browser' = browser
  <2> HIDE DEF s
  <2>1. s # cached
    BY <1>1, <1>2, Fields
  <2>2. Change("mark", Nobody, s)
    BY DEF ChangePhase, s
  <2> QED BY <2>1, <2>2 DEF Change, Cache, marks
<1> HIDE DEF s
<1>5. Moves
  BY <1>1, <1>2, <1>3, <1>4, Orders DEF Moves, GoesOn
<1>6. CopiesOK' /\ TasksOK' /\ BrowsersOK'
  BY <1>4, <1>5, NothingTold
<1>7. MarksOK' /\ WriterOK'
  BY <1>1, <1>2, <1>4 DEF BInv, MarksOK, WriterOK
<1>8. ClientsCovered'
  BY <1>4, PendingCovers DEF ClientsCovered, Pending
<1> QED BY <1>6, <1>7, <1>8 DEF BInv

(* A step that leaves fewer messages and what the browsers show alone      *)
(* keeps both sound.                                                       *)
LEMMA LessTold ==
  ASSUME BInv, Moves, Fewer, \A t \in Busy' : task'[t].targets \subseteq Registered',
         \A c \in Client : /\ browser'[c] \in Browser
                           /\ browser'[c].shows = browser[c].shows
                           /\ browser'[c].full = browser[c].full
  PROVE  CopiesOK' /\ TasksOK' /\ BrowsersOK'
<1>1. CopiesOK'
  BY MovesCopies DEF BInv
<1>2. TasksOK'
  BY FewerTasks DEF BInv
<1>3. ASSUME NEW c \in Client PROVE ClientOK(c)'
  BY SameClient DEF BInv
<1> QED BY <1>1, <1>2, <1>3 DEF BrowsersOK

(* So does one that broadcasts what the server has now.                    *)
LEMMA NewTold ==
  ASSUME BInv, Moves, NEW m, NEW targets, Broadcast(m, targets), targets \subseteq Registered,
         conn' = conn, browser' = browser, m.copy = cached', m.cut = clock',
         \/ m.kind = "full"
         \/ m.kind = "patch" /\ m.of \in Player /\ stored' = cached'
  PROVE  /\ CopiesOK' /\ TasksOK' /\ BrowsersOK'
         /\ IF targets = {} THEN task' = task ELSE Added(m, targets)
<1>1. IF targets = {} THEN task' = task ELSE Added(m, targets)
  BY Broadcasting DEF BInv
<1>2. CASE targets = {}
  <2>1. task' = task
    BY <1>1, <1>2
  <2> QED BY <1>1, <2>1, NothingTold
<1>3. CASE targets # {}
  <2>1. Added(m, targets)
    BY <1>1, <1>3
  <2>2. CopiesOK'
    BY MovesCopies DEF BInv
  <2>3. Registered' = Registered
    BY DEF Registered
  <2>4. TasksOK'
    BY <1>3, <2>1, <2>3, MoreTasks DEF BInv
  <2>5. ASSUME NEW c \in Client PROVE ClientOK(c)'
    BY <2>1, Browsers, SameClient DEF BInv
  <2> QED BY <1>1, <2>2, <2>4, <2>5 DEF BrowsersOK
<1> QED BY <1>2, <1>3

(* A client that is connected or that messages are on their way to is      *)
(* registered.                                                             *)
LEMMA OthersAreUnreached ==
  ASSUME TasksOK', NEW c \in Client, c \notin Registered'
  PROVE  ClientCovered(c)'
<1>1. ~Connected(c)'
  BY DEF Registered, Connected
<1>2. \A t \in Busy' : c \notin task'[t].targets
  BY DEF TasksOK
<1> QED BY <1>1, <1>2, GoneCovers

(* A save that succeeds is told by a patch or by a mark.                   *)
LEMMA CommitStep == ASSUME BInv, Commit PROVE BInv'
<1>1. /\ cached \in Session /\ stored \in Session /\ Earlier(stored, cached)
      /\ writer.op \in {"patch", "mark"} /\ writer.after = cached
      /\ writer.op = "patch" => writer.player \in Player
      /\ clock \in Nat
  BY DEF BInv, CopiesOK, WriterOK, Commit
<1>2. /\ cached' = cached /\ clock' = clock /\ undone' = undone /\ stored' = cached
      /\ writer' = NoWriter /\ conn' = conn /\ browser' = browser
  BY <1>1 DEF Commit
<1>3. Moves
  BY <1>1, <1>2, Orders DEF Moves, Stays
<1>4. WriterOK'
  BY <1>2 DEF WriterOK, NoWriter
<1>5. CASE writer.op = "patch"
  <2>1. PICK m : m = Patch(cached, clock, writer.player)
    OBVIOUS
  <2>2. /\ m.kind = "patch" /\ m.copy = cached /\ m.cut = clock /\ m.of = writer.player
        /\ m.of \in Player
    BY <1>1, <1>5, <2>1 DEF Patch
  <2>3. Broadcast(m, Registered) /\ dirty' = dirty /\ drains' = drains
    BY <1>5, <2>1 DEF Commit, marks, Broadcast
  <2>4. PICK targets : targets = Registered
    OBVIOUS
  <2>5. Broadcast(m, targets) /\ targets \subseteq Registered
    BY <2>3, <2>4 DEF Broadcast
  <2>6. /\ CopiesOK' /\ TasksOK' /\ BrowsersOK'
        /\ IF targets = {} THEN task' = task ELSE Added(m, targets)
    BY <1>2, <1>3, <2>2, <2>5, NewTold
  <2>7. MarksOK'
    BY <1>2, <2>3 DEF BInv, MarksOK
  <2>8. ASSUME NEW c \in Client PROVE ClientCovered(c)'
    <3>1. CASE c \in targets
      <4>1. Added(m, targets)
        BY <2>6, <3>1
      <4>2. Pending(c) => Pending(c)'
        BY <1>5, <2>3 DEF Pending
      <4>3. ClientCovered(c) /\ TasksOK
        BY DEF BInv, ClientsCovered
      <4> QED BY <1>2, <1>5, <2>2, <3>1, <4>1, <4>2, <4>3, PatchCovers
    <3>2. CASE c \notin targets
      BY <1>2, <2>4, <2>6, <3>2, OthersAreUnreached DEF Registered
    <3> QED BY <3>1, <3>2
  <2> QED BY <1>4, <2>6, <2>7, <2>8 DEF BInv, ClientsCovered
<1>6. CASE writer.op = "mark"
  <2>1. Mark("this") /\ task' = task
    BY <1>6 DEF Commit
  <2>2. CopiesOK' /\ TasksOK' /\ BrowsersOK'
    BY <1>2, <1>3, <2>1, NothingTold
  <2>3. MarksOK' /\ "this" \in dirty'
    BY <1>2, <2>1 DEF BInv, MarksOK, Mark
  <2>4. ClientsCovered'
    BY <2>3, PendingCovers DEF ClientsCovered, Pending
  <2> QED BY <1>4, <2>2, <2>3, <2>4 DEF BInv
<1> QED BY <1>1, <1>5, <1>6

(* A save that fails takes the change back.                                *)
LEMMA FailSaveStep == ASSUME BInv, FailSave PROVE BInv'
<1>1. /\ cached \in Session /\ stored \in Session
      /\ writer.before \in Session /\ Earlier(stored, writer.before)
      /\ cached.rev = writer.before.rev + 1
      /\ clock \in Nat
  BY DEF BInv, CopiesOK, WriterOK, FailSave
<1>2. writer.before # cached
  BY <1>1, Fields
<1>3. /\ cached' = writer.before /\ clock' = clock + 1 /\ undone' = clock + 1
      /\ stored' = stored /\ dirty' = dirty /\ drains' = drains
      /\ writer' = NoWriter /\ task' = task /\ conn' = conn /\ browser' = browser
  BY <1>2 DEF FailSave, Cache, marks
<1>4. Moves /\ TakenBack
  BY <1>1, <1>3, Orders DEF Moves, TakenBack
<1>5. Fewer /\ CopiesOK' /\ TasksOK' /\ BrowsersOK'
  BY <1>3, <1>4, NothingTold
<1>6. MarksOK' /\ WriterOK'
  BY <1>3 DEF BInv, MarksOK, WriterOK, NoWriter
<1>7. ASSUME NEW c \in Client PROVE ClientCovered(c)'
  BY <1>3, <1>4, <1>5, Browsers, TakenBackCovers DEF BInv
<1> QED BY <1>5, <1>6, <1>7 DEF BInv, ClientsCovered

(* A reload moves the copies on or takes something back.                   *)
LEMMA Reloading ==
  ASSUME CopiesOK, NEW s \in Session, s = stored \/ s = Touched(stored),
         Reload(s), stored' = stored \/ stored' = s
  PROVE  /\ Moves /\ cached' = s
         /\ cached # stored => Stays \/ TakenBack
         /\ s = stored => Stays \/ TakenBack
         /\ s = stored /\ cached # stored => TakenBack
<1>1. /\ cached \in Session /\ stored \in Session /\ Earlier(stored, cached) /\ clock \in Nat
      /\ Touched(stored) \in Session /\ Earlier(stored, Touched(stored))
      /\ Touched(stored).rev = stored.rev + 1
  BY TouchedIsLater DEF CopiesOK
<1>2. Earlier(stored, s) /\ Earlier(s, s)
  BY <1>1, Orders
<1>3. cached' = s /\ Earlier(stored, stored') /\ Earlier(stored', cached') /\ stored' \in Session
  BY <1>1, <1>2, Orders DEF Reload, Cache
<1>4. CASE s = cached
  <2>1. Stays
    BY <1>4 DEF Reload, Cache, Stays
  <2> QED BY <1>1, <1>3, <1>4, <2>1 DEF Moves
<1>5. CASE s # cached /\ cached # stored
  <2>1. TakenBack
    BY <1>5 DEF Reload, Cache, TakenBack
  <2> QED BY <1>1, <1>3, <2>1 DEF Moves
<1>6. CASE s # cached /\ cached = stored
  <2>1. s = Touched(stored) /\ stored.rev < s.rev /\ s # stored
    BY <1>1, <1>6, Fields
  <2>2. GoesOn
    BY <1>1, <1>6, <2>1 DEF Reload, Cache, GoesOn
  <2> QED BY <1>1, <1>3, <1>6, <2>1, <2>2 DEF Moves
<1> QED BY <1>4, <1>5, <1>6

(* A return that is saved is told to everybody else.                       *)
LEMMA AttachedStep == ASSUME BInv, Attached PROVE BInv'
<1>1. /\ cached \in Session /\ stored \in Session /\ Earlier(stored, cached)
      /\ writer.op = "attach" /\ writer.after = cached /\ writer.changed \in BOOLEAN
      /\ writer.player \in Player /\ clock \in Nat
  BY DEF BInv, CopiesOK, WriterOK, Attached
<1>2. /\ cached' = cached /\ clock' = clock /\ undone' = undone
      /\ stored' = cached \/ stored' = stored
      /\ writer' = NoWriter /\ conn' = conn /\ browser' = browser
      /\ dirty' = dirty /\ drains' = drains
  BY <1>1 DEF Attached, marks
<1>3. Moves
  BY <1>1, <1>2, Orders DEF Moves, Stays
<1>4. WriterOK' /\ MarksOK'
  BY <1>2 DEF WriterOK, NoWriter, BInv, MarksOK
<1>5. ASSUME NEW c \in Client, Fewer, task' = task, Pending(c) => Pending(c)'
      PROVE  ClientCovered(c)'
  <2>1. Connected(c)' => Connected(c)
    BY <1>2 DEF Connected
  <2>2. \A t \in Busy : c \in task[t].targets => t \in Busy' /\ c \in task'[t].targets
    BY <1>5 DEF Busy
  <2> QED BY <1>1, <1>2, <1>5, <2>1, <2>2, StillCovered DEF BInv, ClientsCovered
<1>6. CASE ~writer.changed
  <2>1. task' = task
    BY <1>6 DEF Attached
  <2>2. Fewer /\ CopiesOK' /\ TasksOK' /\ BrowsersOK'
    BY <1>2, <1>3, <2>1, NothingTold
  <2>3. ASSUME NEW c \in Client PROVE Pending(c) => Pending(c)'
    BY <1>1, <1>2, <1>6 DEF Pending
  <2> QED BY <1>4, <1>5, <2>1, <2>2, <2>3 DEF BInv, ClientsCovered
<1>7. CASE writer.changed
  <2>1. PICK m : m = FullState(cached, clock)
    OBVIOUS
  <2>2. m.kind = "full" /\ m.copy = cached /\ m.cut = clock
    BY <2>1 DEF FullState
  <2>3. PICK targets : targets = Registered \ {writer.player}
    OBVIOUS
  <2>4. Broadcast(m, targets) /\ targets \subseteq Registered
    BY <1>7, <2>1, <2>3 DEF Attached, Broadcast
  <2>5. /\ CopiesOK' /\ TasksOK' /\ BrowsersOK'
        /\ IF targets = {} THEN task' = task ELSE Added(m, targets)
    BY <1>2, <1>3, <2>2, <2>4, NewTold
  <2>6. Valid(m)'
    BY <1>2, <2>2, <2>5 DEF Valid, CopiesOK
  <2>7. ASSUME NEW c \in Client PROVE ClientCovered(c)'
    <3>1. CASE c \in targets
      <4>1. Added(m, targets)
        BY <2>5, <3>1
      <4> QED BY <1>2, <2>2, <2>6, <3>1, <4>1, NewsCovers
    <3>2. CASE c \notin Registered
      BY <1>2, <2>5, <3>2, OthersAreUnreached DEF Registered
    <3>3. CASE c = writer.player
      <4>1. Pending(c) => Pending(c)'
        BY <1>1, <1>2, <3>3 DEF Pending
      <4>2. /\ Coming(c) = Coming(c)' /\ Fulls(c) = Fulls(c)'
            /\ \A t \in Coming(c) : /\ t \in Busy' /\ c \in task'[t].targets
                                    /\ task'[t].message = task[t].message
        <5>1. c \notin targets
          BY <2>3, <3>3
        <5>2. \A t \in Task : c \in task'[t].targets \/ c \in task[t].targets =>
                 task'[t] = task[t]
          BY <2>5, <5>1 DEF Added, Idle
        <5> QED BY <1>2, <5>2 DEF Coming, Fulls, Busy, Idle, Valid
      <4>3. ASSUME NEW s, Covered(c, s) PROVE Covered(c, s)'
        BY <1>1, <1>2, <4>1, <4>2, <4>3, StillTold DEF Covered
      <4>4. \A t \in Fulls(c)' : t \in Fulls(c) /\ task'[t].message = task[t].message
        BY <4>2 DEF Fulls
      <4>5. Connected(c)' => Connected(c)
        BY <1>2 DEF Connected
      <4> QED BY <1>2, <4>3, <4>4, <4>5, CoveredStays DEF BInv, ClientsCovered
    <3> QED BY <2>3, <3>1, <3>2, <3>3
  <2> QED BY <1>4, <2>5, <2>7 DEF BInv, ClientsCovered
<1> QED BY <1>6, <1>7

(* A return that cannot be saved is taken back, and the socket is gone.    *)
LEMMA AttachFailsStep == ASSUME BInv, AttachFails PROVE BInv'
<1>1. /\ cached \in Session /\ stored \in Session /\ clock \in Nat
      /\ writer.op = "attach" /\ writer.player \in Player
      /\ writer.before = stored /\ cached = Touched(stored)
  BY DEF BInv, CopiesOK, WriterOK, AttachFails
<1>2. PICK p : p = writer.player
  OBVIOUS
<1>3. stored # cached
  BY <1>1, TouchedIsLater, Fields
<1>4. /\ cached' = stored /\ clock' = clock + 1 /\ undone' = clock + 1
      /\ stored' = stored /\ dirty' = dirty /\ drains' = drains
      /\ writer' = NoWriter
      /\ conn' = [conn EXCEPT ![p] = "closed"]
  BY <1>1, <1>2, <1>3 DEF AttachFails, Cache, marks
<1>5. task' = Unaddressed({p}) /\ browser' = Offline({p})
  BY <1>2 DEF AttachFails, Unaddressed, Offline
<1>6. Moves /\ TakenBack
  BY <1>1, <1>4, Orders DEF Moves, TakenBack
<1>7. Fewer /\ \A u \in Task : task'[u].targets \cap {p} = {}
  <2>1. CASE Task = {}
    BY <1>5, <2>1 DEF Fewer, Unaddressed
  <2>2. CASE Task # {}
    BY <1>5, <2>2, Dismissing DEF BInv
  <2> QED BY <2>1, <2>2
<1>8. \A c \in Client : /\ browser'[c] \in Browser
                        /\ browser'[c].shows = browser[c].shows
                        /\ browser'[c].full = browser[c].full
  BY <1>5, Browsers DEF BInv, Offline, Browser
<1>9. \A t \in Busy' : task'[t].targets \subseteq Registered'
  BY <1>4, <1>7 DEF BInv, TasksOK, Registered, Fewer, Busy, MarksOK
<1>10. CopiesOK' /\ TasksOK' /\ BrowsersOK'
  BY <1>6, <1>7, <1>8, <1>9, LessTold
<1>11. MarksOK' /\ WriterOK'
  BY <1>4 DEF BInv, MarksOK, WriterOK, NoWriter
<1>12. ASSUME NEW c \in Client PROVE ClientCovered(c)'
  BY <1>6, <1>7, <1>8, Browsers, TakenBackCovers DEF BInv
<1> QED BY <1>10, <1>11, <1>12 DEF BInv, ClientsCovered

(* Sockets break: their clients are offline and no longer addressed, which *)
(* leaves all others as they are.                                          *)
LEMMA BreakingKeeps ==
  ASSUME BInv, NEW gone, NEW t, UNCHANGED <<copies, writer, marks>>, Fewer,
         browser' = Offline(gone),
         conn' = [p \in Player |-> IF p \in gone THEN "broken" ELSE conn[p]],
         \A u \in Task : /\ task'[u].targets \cap gone = {}
                         /\ \/ task'[u].targets = task[u].targets \ gone
                            \/ u = t /\ task[t].targets \subseteq gone
  PROVE  BInv'
<1>1. /\ cached' = cached /\ stored' = stored /\ clock' = clock /\ undone' = undone
      /\ writer' = writer /\ dirty' = dirty /\ drains' = drains
  BY DEF copies, marks
<1>2. Moves
  BY <1>1, Orders DEF BInv, CopiesOK, Moves, Stays
<1>3. \A c \in Client : /\ browser'[c] \in Browser
                        /\ browser'[c].shows = browser[c].shows
                        /\ browser'[c].full = browser[c].full
                        /\ browser'[c].missed = browser[c].missed
                        /\ c \notin gone => browser'[c] = browser[c]
  BY Browsers DEF BInv, Offline, Browser
<1>4. \A t1 \in Busy' : task'[t1].targets \subseteq Registered'
  BY Bounds DEF BInv, TasksOK, Registered, Fewer, Busy, MarksOK
<1>5. CopiesOK' /\ TasksOK' /\ BrowsersOK'
  BY <1>2, <1>3, <1>4, LessTold
<1>6. MarksOK' /\ WriterOK'
  BY <1>1 DEF BInv, MarksOK, WriterOK, NoWriter
<1>7. ASSUME NEW c \in Client PROVE ClientCovered(c)'
  <2>1. CASE c \in gone
    <3>1. c \notin Registered'
      BY <2>1, Bounds DEF Registered
    <3> QED BY <1>5, <3>1, OthersAreUnreached
  <2>2. CASE c \notin gone
    <3>1. Connected(c)' => Connected(c)
      BY <1>3, <2>2, Bounds DEF Connected
    <3>2. \A u \in Busy : c \in task[u].targets => u \in Busy' /\ c \in task'[u].targets
      BY <2>2 DEF Busy, Idle
    <3>3. Pending(c) => Pending(c)'
      BY <1>1 DEF Pending
    <3> QED BY <1>1, <1>3, <3>1, <3>2, <3>3, StillCovered DEF BInv, ClientsCovered
  <2> QED BY <2>1, <2>2
<1> QED BY <1>5, <1>6, <1>7 DEF BInv, ClientsCovered

(* A broken socket.                                                        *)
LEMMA BreakStep == ASSUME BInv, NEW p \in Player, Break(p) PROVE BInv'
<1>1. UNCHANGED <<copies, writer, marks>> /\ browser' = Offline({p})
      /\ task' = Unaddressed({p}) /\ conn' = [conn EXCEPT ![p] = "broken"]
  BY DEF Break
<1>2. conn' = [q \in Player |-> IF q \in {p} THEN "broken" ELSE conn[q]]
  BY <1>1 DEF BInv, MarksOK
<1>3. CASE Task = {}
  <2>1. Fewer
    BY <1>1, <1>3 DEF Fewer, Unaddressed
  <2> QED BY <1>1, <1>2, <1>3, <2>1, BreakingKeeps
<1>4. ASSUME NEW t \in Task PROVE BInv'
  <2>1. /\ Fewer
        /\ \A u \in Task : /\ task'[u].targets \cap {p} = {}
                           /\ \/ task'[u].targets = task[u].targets \ {p}
                              \/ u = t /\ task'[u] = Idle
    BY <1>1, Dismissing DEF BInv
  <2>2. \A u \in Task : task'[u].targets = task[u].targets \ {p}
    BY <1>1 DEF Unaddressed, Idle, BInv, TasksOK, Busy
  <2> QED BY <1>1, <1>2, <2>1, <2>2, BreakingKeeps
<1> QED BY <1>3, <1>4

(* Sending a broadcast.                                                    *)
LEMMA SendStep == ASSUME BInv, NEW t \in Task, Send(t) PROVE BInv'
<1>1. t \in Busy
  BY DEF Send, Busy
<1>2. PICK full \in {{}, task[t].targets} :
        /\ browser' = [c \in Client |->
             IF c \in task[t].targets \ full THEN Received(browser[c], task[t].message)
             ELSE Offline(full)[c]]
        /\ conn' = [p \in Player |-> IF p \in full THEN "broken" ELSE conn[p]]
        /\ task' = [Unaddressed(full) EXCEPT ![t] = Idle]
  BY DEF Send
<1>3. UNCHANGED <<copies, writer, marks>>
  BY DEF Send
<1>4. /\ Fewer
      /\ \A u \in Task : /\ task'[u].targets \cap full = {}
                         /\ \/ task'[u].targets = task[u].targets \ full
                            \/ u = t /\ task'[u] = Idle
  BY <1>2, Dismissing DEF BInv
<1>5. CASE full = task[t].targets
  <2>1. browser' = Offline(full)
    BY <1>2, <1>5 DEF Offline
  <2>2. \A u \in Task : \/ task'[u].targets = task[u].targets \ full
                        \/ u = t /\ task[t].targets \subseteq full
    BY <1>4, <1>5
  <2> QED BY <1>2, <1>3, <1>4, <2>1, <2>2, BreakingKeeps
<1>6. CASE full = {}
  <2>1. /\ cached' = cached /\ stored' = stored /\ clock' = clock /\ undone' = undone
        /\ writer' = writer /\ dirty' = dirty /\ drains' = drains
    BY <1>3 DEF copies, marks
  <2>2. conn' = conn
    BY <1>2, <1>6 DEF BInv, MarksOK
  <2>3. \A c \in Client : browser'[c] = IF c \in task[t].targets
          THEN Received(browser[c], task[t].message) ELSE browser[c]
    BY <1>2, <1>6 DEF Offline
  <2>4. task'[t] = Idle /\ \A u \in Task \ {t} : task'[u] = task[u]
    <3>1. task'[t] = Idle
      BY <1>2 DEF Unaddressed
    <3>2. ASSUME NEW u \in Task \ {t} PROVE task'[u] = task[u]
      <4>1. task'[u].targets = task[u].targets
        BY <1>4, <1>6
      <4>2. CASE task[u] = Idle
        <5>1. task[u].targets \subseteq full
          BY <4>2 DEF Idle
        <5>2. Unaddressed(full)[u] = Idle /\ DOMAIN Unaddressed(full) = Task
          BY <5>1 DEF Unaddressed
        <5> QED BY <1>2, <4>2, <5>2
      <4>3. CASE task[u] # Idle
        <5>1. /\ task[u] = [message |-> task[u].message, targets |-> task[u].targets]
              /\ task[u].targets # {}
          BY <4>3 DEF BInv, TasksOK, Busy
        <5>2. task'[u] # Idle
          BY <4>1, <5>1 DEF Idle
        <5> QED BY <1>4, <4>1, <5>1, <5>2 DEF Fewer
      <4> QED BY <4>2, <4>3
    <3> QED BY <3>1, <3>2
  <2>5. Moves
    BY <2>1, Orders DEF BInv, CopiesOK, Moves, Stays
  <2>6. CopiesOK'
    BY <2>5, MovesCopies DEF BInv
  <2>7. TasksOK'
    <3>1. \A u \in Busy' : task'[u].targets \subseteq Registered'
      BY <2>2, <2>4 DEF BInv, TasksOK, Registered, Busy
    <3> QED BY <1>4, <2>5, <3>1, FewerTasks DEF BInv
  <2>8. MarksOK' /\ WriterOK'
    BY <2>1, <2>2 DEF BInv, MarksOK, WriterOK, NoWriter
  <2>9. ASSUME NEW c \in Client PROVE ClientOK(c)' /\ ClientCovered(c)'
    <3>1. CASE c \in task[t].targets
      <4>1. \A u \in Busy \ {t} : u \in Busy' /\ task'[u] = task[u]
        BY <2>4 DEF Busy
      <4>2. browser'[c] = Received(browser[c], task[t].message)
        BY <2>3, <3>1
      <4> QED BY <1>1, <1>3, <1>4, <2>2, <2>4, <3>1, <4>1, <4>2, ReceivingKeeps DEF BInv
    <3>2. CASE c \notin task[t].targets
      <4>1. browser'[c] = browser[c] /\ browser[c] \in Browser
        BY <2>3, <3>2, Browsers DEF BInv
      <4>2. ClientOK(c)'
        BY <1>4, <2>5, <4>1, SameClient DEF BInv
      <4>3. \A u \in Busy : c \in task[u].targets => u \in Busy' /\ c \in task'[u].targets
        BY <2>4, <3>2 DEF Busy
      <4>4. (Connected(c)' => Connected(c)) /\ (Pending(c) => Pending(c)')
        BY <2>1, <2>2, <4>1 DEF Connected, Pending
      <4>5. ClientCovered(c)'
        BY <1>4, <2>1, <4>1, <4>3, <4>4, StillCovered DEF BInv, ClientsCovered
      <4> QED BY <4>2, <4>5
    <3> QED BY <3>1, <3>2
  <2> QED BY <2>6, <2>7, <2>8, <2>9 DEF BInv, BrowsersOK, ClientsCovered
<1> QED BY <1>2, <1>5, <1>6

(* A player who left is marked, or the copy stays as it was.               *)
LEMMA LeaveStep == ASSUME BInv, NEW p \in Player, Leave(p) PROVE BInv'
<1>1. /\ writer = NoWriter /\ writer' = writer /\ task' = task /\ browser' = browser
      /\ conn' = [conn EXCEPT ![p] = "closed"] /\ conn[p] = "broken"
  BY DEF Leave, Free
<1>2. \A q \in Client : conn[q] = "attached" => conn'[q] = "attached"
  BY <1>1, Bounds DEF BInv, MarksOK
<1>3. WriterOK'
  BY <1>1 DEF WriterOK, NoWriter
<1>4. CASE UNCHANGED <<copies, marks>>
  <2>1. /\ cached' = cached /\ stored' = stored /\ clock' = clock /\ undone' = undone
        /\ dirty' = dirty /\ drains' = drains
    BY <1>4 DEF copies, marks
  <2>2. Moves
    BY <2>1, Orders DEF BInv, CopiesOK, Moves, Stays
  <2>3. Fewer /\ CopiesOK' /\ TasksOK' /\ BrowsersOK'
    BY <1>1, <1>2, <2>2, NothingTold
  <2>4. MarksOK'
    BY <1>1, <2>1 DEF BInv, MarksOK
  <2>5. ASSUME NEW c \in Client PROVE ClientCovered(c)'
    <3>1. (Connected(c)' => Connected(c)) /\ (Pending(c) => Pending(c)')
      BY <1>1, <2>1, Bounds DEF BInv, MarksOK, Connected, Pending
    <3>2. \A u \in Busy : c \in task[u].targets => u \in Busy' /\ c \in task'[u].targets
      BY <1>1 DEF Busy
    <3> QED BY <1>1, <2>1, <2>3, <3>1, <3>2, StillCovered DEF BInv, ClientsCovered
  <2> QED BY <1>3, <2>3, <2>4, <2>5 DEF BInv, ClientsCovered
<1>5. CASE Reload(Touched(stored)) /\ stored' = Touched(stored) /\ Mark("this")
  <2>1. PICK s : s = Touched(stored)
    OBVIOUS
  <2>2. s \in Session
    BY <2>1, TouchedIsLater DEF BInv, CopiesOK
  <2>3. Reload(s) /\ stored' = s
    BY <1>5, <2>1 DEF Reload, Cache
  <2>4. Moves
    BY <2>1, <2>2, <2>3, Reloading DEF BInv
  <2>5. CopiesOK' /\ TasksOK' /\ BrowsersOK'
    BY <1>1, <1>2, <2>4, NothingTold
  <2>6. MarksOK' /\ "this" \in dirty'
    BY <1>1, <1>5 DEF BInv, MarksOK, Mark
  <2>7. ClientsCovered'
    BY <2>6, PendingCovers DEF ClientsCovered, Pending
  <2> QED BY <1>3, <2>5, <2>6, <2>7 DEF BInv
<1> QED BY <1>4, <1>5 DEF Leave

(* A browser that shows what the server has now is sound.                  *)
LEMMA NowShown ==
  ASSUME CopiesOK, TasksOK, Moves, task' = task, NEW c \in Client,
         browser'[c] \in Browser, browser'[c].shows = cached', browser'[c].full = clock'
  PROVE  ClientOK(c)'
<1>1. PICK r : r = browser'[c]
  OBVIOUS
<1>2. CopiesOK'
  BY MovesCopies
<1>3. BrowserOK(r)'
  BY <1>1, <1>2, Orders DEF BrowserOK, CopiesOK
<1>4. ASSUME NEW t \in Busy' PROVE Between(browser[c], task[t].message)'
  <2>1. PICK n : n = task'[t].message
    OBVIOUS
  <2>2. MessageOK(n)'
    BY <2>1, MovesMessage DEF TasksOK, Busy
  <2>3. Between(r, n)'
    BY <1>1, <1>2, <2>2, Orders DEF Between, MessageOK, CopiesOK
  <2> QED BY <1>1, <2>1, <2>3 DEF Between, Valid
<1>5. BrowserOK(browser[c])'
  BY <1>1, <1>3 DEF BrowserOK
<1> QED BY <1>4, <1>5 DEF ClientOK

(* An attach sends its player the copy; the others will be told.           *)
LEMMA AttachStep ==
  ASSUME BInv, NEW p \in Player, NEW changed \in BOOLEAN, Attach(p, changed)
  PROVE  BInv'
<1>1. PICK s : s = IF changed THEN Touched(stored) ELSE stored
  OBVIOUS
<1>2. PICK m : m = FullState(s, clock')
  OBVIOUS
<1>3. /\ stored \in Session /\ s \in Session /\ (s = stored \/ s = Touched(stored))
      /\ ~changed => s = stored
      /\ m.kind = "full" /\ m.copy = s /\ m.cut = clock'
  BY <1>1, <1>2, TouchedIsLater DEF BInv, CopiesOK, FullState
<1>4. /\ Reload(s) /\ stored' = stored /\ task' = task
      /\ dirty' = dirty /\ drains' = drains
      /\ writer = NoWriter
      /\ writer' = [op |-> "attach", player |-> p, before |-> stored, after |-> s,
                    changed |-> changed]
      /\ conn[p] = "closed" /\ conn' = [conn EXCEPT ![p] = "attached"]
  BY <1>1 DEF Attach, Free, marks, Reload, Cache
<1>5. \A c \in Client : browser'[c] =
        IF c # p THEN browser[c]
        ELSE Received([browser[c] EXCEPT !.status = "Connecting"], m)
  BY <1>1, <1>2 DEF Attach, Received, IsCurrent, FullState
<1>6. Moves /\ cached' = s /\ (~changed => Stays \/ TakenBack)
  BY <1>3, <1>4, Reloading DEF BInv
<1>7. \A q \in Client : conn[q] = "attached" => conn'[q] = "attached"
  BY <1>4, Bounds DEF BInv, MarksOK
<1>8. CopiesOK'
  BY <1>6, MovesCopies DEF BInv
<1>9. Fewer
  BY <1>4, SameTasks DEF BInv
<1>10. TasksOK'
  <2>1. \A t \in Busy' : task'[t].targets \subseteq Registered'
    BY <1>4, <1>7 DEF BInv, TasksOK, Registered, Busy
  <2> QED BY <1>6, <1>9, <2>1, FewerTasks DEF BInv
<1>11. MarksOK' /\ WriterOK'
  BY <1>3, <1>1, <1>4, <1>6, Orders DEF BInv, MarksOK, WriterOK
<1>12. ASSUME NEW c \in Client, c # p PROVE ClientOK(c)' /\ ClientCovered(c)'
  <2>1. browser'[c] = browser[c] /\ browser[c] \in Browser /\ BrowserOK(browser[c])
    BY <1>5, <1>12, Browsers DEF BInv
  <2>2. ClientOK(c)'
    BY <1>6, <1>9, <2>1, SameClient DEF BInv
  <2>3. CASE changed
    <3>1. Pending(c)'
      BY <1>4, <1>12, <2>3 DEF Pending
    <3> QED BY <2>2, <3>1, PendingCovers
  <2>4. CASE TakenBack
    BY <1>6, <1>9, <2>1, <2>2, <2>4, TakenBackCovers DEF BInv
  <2>5. CASE Stays
    <3>1. Connected(c)' => Connected(c)
      BY <1>4, <1>12, <2>1, Bounds DEF BInv, MarksOK, Connected
    <3>2. (Pending(c) => Pending(c)') /\ writer.op # "patch"
      BY <1>4 DEF Pending, NoWriter
    <3>3. \A u \in Busy : c \in task[u].targets => u \in Busy' /\ c \in task'[u].targets
      BY <1>4 DEF Busy
    <3> QED BY <1>9, <2>1, <2>2, <2>5, <3>1, <3>2, <3>3, StillCovered
            DEF BInv, ClientsCovered, Stays
  <2> QED BY <1>6, <2>3, <2>4, <2>5
<1>13. ASSUME p \in Client PROVE ClientOK(p)' /\ ClientCovered(p)'
  <2>1. PICK b : b = [browser[p] EXCEPT !.status = "Connecting"]
    OBVIOUS
  <2>2. PICK r : r = browser'[p]
    OBVIOUS
  <2>3. /\ browser[p] \in Browser /\ b \in Browser /\ r = Received(b, m)
        /\ b.shows = browser[p].shows /\ b.full = browser[p].full /\ b.status = "Connecting"
    BY <1>5, <1>13, <2>1, <2>2, Browsers DEF BInv, Browser
  <2>4. m.cut \in Nat /\ m.copy.rev \in Nat /\ b.shows.rev \in Nat
    BY <1>3, <1>8, <2>3, Fields DEF CopiesOK, Browser
  <2>5. r \in Browser
    BY <1>3, <2>3, <2>4, ReducerTakes
  <2>6. \A t \in Busy' : p \notin task'[t].targets
    BY <1>4 DEF BInv, TasksOK, Registered, Busy
  <2>7. CASE m.copy.rev < b.shows.rev
    <3>1. r.shows = b.shows /\ r.full = b.full /\ r.status = b.status
      BY <1>3, <2>3, <2>4, <2>7, ReducerTakes
    <3>2. ClientOK(p)'
      BY <1>6, <1>9, <1>13, <2>2, <2>3, <2>5, <3>1, SameClient DEF BInv
    <3>3. ~Connected(p)'
      BY <2>2, <2>3, <3>1 DEF Connected
    <3> QED BY <1>13, <2>6, <3>2, <3>3, GoneCovers
  <2>8. CASE m.copy.rev >= b.shows.rev
    <3>1. r.shows = cached' /\ r.full = clock'
      BY <1>3, <1>6, <2>3, <2>4, <2>8, ReducerTakes
    <3>2. ClientOK(p)'
      BY <1>4, <1>6, <1>13, <2>2, <2>5, <3>1, NowShown DEF BInv
    <3>3. Fulls(p)' = {}
      BY <2>6 DEF Fulls, Coming
    <3>4. Covered(p, browser[p].shows)'
      BY <2>2, <3>1 DEF Covered, Told
    <3> QED BY <3>2, <3>3, <3>4 DEF ClientCovered
  <2> QED BY <2>4, <2>7, <2>8
<1>14. BrowsersOK' /\ ClientsCovered'
  BY <1>12, <1>13 DEF BrowsersOK, ClientsCovered
<1> QED BY <1>8, <1>10, <1>11, <1>14 DEF BInv

(* A player who reconnects is shown the answer; all will be told.          *)
LEMMA RejoinStep == ASSUME BInv, NEW p \in Player, Rejoin(p) PROVE BInv'
<1>1. PICK s : s = Touched(stored)
  OBVIOUS
<1>2. s \in Session
  BY <1>1, TouchedIsLater DEF BInv, CopiesOK
<1>3. /\ Reload(s) /\ stored' = s /\ task' = task /\ Mark("this")
      /\ writer = NoWriter /\ writer' = writer /\ conn' = conn
  BY <1>1 DEF Rejoin, Free, Reload, Cache
<1>4. \A c \in Client : browser'[c] = IF c = p THEN Showing(s, "Connecting", clock')
                                      ELSE browser[c]
  BY <1>1 DEF Rejoin
<1>5. Moves /\ cached' = s
  BY <1>1, <1>2, <1>3, Reloading DEF BInv
<1>6. CopiesOK'
  BY <1>5, MovesCopies DEF BInv
<1>7. Fewer
  BY <1>3, SameTasks DEF BInv
<1>8. TasksOK'
  <2>1. \A t \in Busy' : task'[t].targets \subseteq Registered'
    BY <1>3 DEF BInv, TasksOK, Registered, Busy
  <2> QED BY <1>5, <1>7, <2>1, FewerTasks DEF BInv
<1>9. MarksOK' /\ WriterOK' /\ "this" \in dirty'
  BY <1>3 DEF BInv, MarksOK, WriterOK, NoWriter, Mark
<1>10. ASSUME NEW c \in Client PROVE ClientOK(c)'
  <2>1. CASE c = p
    <3>1. browser'[c] \in Browser /\ browser'[c].shows = cached' /\ browser'[c].full = clock'
      BY <1>2, <1>4, <1>5, <1>6, <2>1 DEF Showing, Browser, CopiesOK
    <3> QED BY <1>3, <1>5, <3>1, NowShown DEF BInv
  <2>2. CASE c # p
    BY <1>4, <1>5, <1>7, <2>2, Browsers, SameClient DEF BInv
  <2> QED BY <2>1, <2>2
<1>11. ClientsCovered'
  BY <1>9, PendingCovers DEF ClientsCovered, Pending
<1> QED BY <1>6, <1>8, <1>9, <1>10, <1>11 DEF BInv, BrowsersOK

(* Those a full state is broadcast to are covered, the others are not      *)
(* connected.                                                              *)
LEMMA AllAreTold ==
  ASSUME CopiesOK', TasksOK', NEW m, NEW targets, targets = Registered',
         m.kind = "full", m.copy = cached', m.cut = clock',
         IF targets = {} THEN task' = task ELSE Added(m, targets)
  PROVE  ClientsCovered'
<1>1. ASSUME NEW c \in Client PROVE ClientCovered(c)'
  <2>1. CASE c \in targets
    <3>1. Added(m, targets) /\ Valid(m)'
      BY <2>1 DEF Valid, CopiesOK
    <3> QED BY <2>1, <3>1, NewsCovers
  <2>2. CASE c \notin targets
    BY <2>2, OthersAreUnreached
  <2> QED BY <2>1, <2>2
<1> QED BY <1>1 DEF ClientsCovered

(* The copy that a late notification evicts is loaded and broadcast.       *)
LEMMA HearLateStep == ASSUME BInv, HearLate PROVE BInv'
<1>1. PICK s : s = stored
  OBVIOUS
<1>2. PICK m : m = FullState(s, clock')
  OBVIOUS
<1>3. PICK targets : targets = Registered
  OBVIOUS
<1>4. s \in Session /\ m.kind = "full" /\ m.copy = s /\ m.cut = clock'
  BY <1>1, <1>2 DEF BInv, CopiesOK, FullState
<1>5. /\ Reload(s) /\ stored' = stored /\ cached # stored
      /\ writer' = writer /\ writer = NoWriter /\ conn' = conn /\ browser' = browser
      /\ dirty' = dirty /\ drains' = drains
  BY <1>1 DEF HearLate, Free, marks, Reload, Cache
<1>6. Broadcast(m, targets) /\ targets \subseteq Registered
  BY <1>1, <1>2, <1>3 DEF HearLate, Broadcast
<1>7. Moves /\ cached' = s
  BY <1>1, <1>4, <1>5, Reloading DEF BInv
<1>8. /\ CopiesOK' /\ TasksOK' /\ BrowsersOK'
      /\ IF targets = {} THEN task' = task ELSE Added(m, targets)
  BY <1>4, <1>5, <1>6, <1>7, NewTold
<1>9. MarksOK' /\ WriterOK'
  BY <1>5 DEF BInv, MarksOK, WriterOK, NoWriter
<1>10. targets = Registered'
  BY <1>3, <1>5 DEF Registered
<1>11. ClientsCovered'
  BY <1>4, <1>7, <1>8, <1>10, AllAreTold
<1> QED BY <1>8, <1>9, <1>11 DEF BInv

(* A restart leaves nobody registered and nothing on its way.              *)
LEMMA RestartStep == ASSUME BInv, Restart PROVE BInv'
<1>1. PICK s : s = stored
  OBVIOUS
<1>2. /\ s \in Session /\ Reload(s) /\ stored' = stored /\ writer' = NoWriter
      /\ dirty' = {} /\ drains' = 0 /\ task' = [t \in Task |-> Idle]
      /\ conn' = [p \in Player |-> "closed"] /\ browser' = Offline(Client)
  BY <1>1 DEF BInv, CopiesOK, Restart, Reload, Cache
<1>3. Moves
  BY <1>1, <1>2, Reloading DEF BInv
<1>4. Fewer /\ Busy' = {}
  BY <1>2 DEF Fewer, Busy
<1>5. \A c \in Client : /\ browser'[c] \in Browser
                        /\ browser'[c].shows = browser[c].shows
                        /\ browser'[c].full = browser[c].full
  BY <1>2, Browsers DEF BInv, Offline, Browser
<1>6. CopiesOK' /\ TasksOK' /\ BrowsersOK'
  BY <1>3, <1>4, <1>5, LessTold
<1>7. MarksOK' /\ WriterOK'
  BY <1>2 DEF MarksOK, WriterOK, NoWriter
<1>8. ASSUME NEW c \in Client PROVE ClientCovered(c)'
  <2>1. c \notin Registered'
    BY <1>2, Bounds DEF Registered
  <2> QED BY <1>6, <2>1, OthersAreUnreached
<1> QED BY <1>6, <1>7, <1>8 DEF BInv, ClientsCovered

(* A drain broadcasts the session if it was marked.                        *)
LEMMA DrainStep == ASSUME BInv, Drain PROVE BInv'
<1>1. /\ cached' = cached /\ stored' = stored /\ clock' = clock /\ undone' = undone
      /\ writer' = writer /\ conn' = conn /\ browser' = browser
      /\ dirty' = {} /\ drains > 0 /\ drains' = drains - 1
  BY DEF Drain, copies
<1>2. drains' = 0
  BY <1>1 DEF BInv, MarksOK
<1>3. MarksOK' /\ WriterOK'
  BY <1>1, <1>2 DEF BInv, MarksOK, WriterOK, NoWriter
<1>4. Moves
  BY <1>1, Orders DEF BInv, CopiesOK, Moves, Stays
<1>5. CASE "this" \in dirty
  <2>1. PICK m : m = FullState(cached, clock)
    OBVIOUS
  <2>2. PICK targets : targets = Registered
    OBVIOUS
  <2>3. m.kind = "full" /\ m.copy = cached' /\ m.cut = clock'
    BY <1>1, <2>1 DEF FullState
  <2>4. Broadcast(m, targets) /\ targets \subseteq Registered
    BY <1>5, <2>1, <2>2 DEF Drain, Broadcast
  <2>5. /\ CopiesOK' /\ TasksOK' /\ BrowsersOK'
        /\ IF targets = {} THEN task' = task ELSE Added(m, targets)
    BY <1>1, <1>4, <2>3, <2>4, NewTold
  <2>6. targets = Registered'
    BY <1>1, <2>2 DEF Registered
  <2>7. ClientsCovered'
    BY <2>3, <2>5, <2>6, AllAreTold
  <2> QED BY <1>3, <2>5, <2>7 DEF BInv
<1>6. CASE "this" \notin dirty
  <2>1. task' = task
    BY <1>6 DEF Drain
  <2>2. Fewer /\ CopiesOK' /\ TasksOK' /\ BrowsersOK'
    BY <1>1, <1>4, <2>1, NothingTold
  <2>3. ASSUME NEW c \in Client PROVE ClientCovered(c)'
    <3>1. (Connected(c)' => Connected(c)) /\ (Pending(c) => Pending(c)')
      BY <1>1, <1>6 DEF Connected, Pending
    <3>2. \A u \in Busy : c \in task[u].targets => u \in Busy' /\ c \in task'[u].targets
      BY <2>1 DEF Busy
    <3> QED BY <1>1, <2>2, <3>1, <3>2, StillCovered DEF BInv, ClientsCovered
  <2> QED BY <1>3, <2>2, <2>3 DEF BInv, ClientsCovered
<1> QED BY <1>5, <1>6

(* A step that changes nothing.                                            *)
LEMMA StutterStep == ASSUME BInv, UNCHANGED vars PROVE BInv'
BY DEF BInv, vars, copies, marks, bounds, CopiesOK, MarksOK, WriterOK, TasksOK, BrowsersOK,
       ClientsCovered, ClientOK, ClientCovered, Covered, Told, Pending, Patching, Coming,
       Fulls, About, Busy, Registered, Connected, MessageOK, InOrder, BrowserOK, Between, Valid

(* At first every client shows the session as it is.                       *)
LEMMA InitHolds == ASSUME Init PROVE BInv
<1>1. PICK s : s = [rev |-> 0, phase |-> 1, ticks |-> 0, work |-> [p \in Player |-> 0]]
  OBVIOUS
<1>2. s \in Session
  BY <1>1, Bounds DEF Session
<1>3. /\ stored = s /\ cached = s /\ writer = NoWriter /\ clock = 0 /\ undone = 0
      /\ task = [t \in Task |-> Idle]
      /\ dirty \subseteq {"this", "other"} /\ drains = IF dirty = {} THEN 0 ELSE 1
      /\ conn \in [Player -> {"closed", "attached", "broken"}]
      /\ \A c \in Client : browser[c] = Showing(s, "Connected", 0)
  BY <1>1 DEF Init
<1>4. CopiesOK /\ MarksOK /\ WriterOK
  BY <1>2, <1>3, Orders DEF CopiesOK, MarksOK, WriterOK, NoWriter
<1>5. Busy = {}
  BY <1>3 DEF Busy
<1>6. TasksOK
  BY <1>3, <1>5 DEF TasksOK
<1>7. ASSUME NEW c \in Client PROVE ClientOK(c) /\ ClientCovered(c)
  <2>1. /\ browser[c] \in Browser /\ browser[c].shows = cached
        /\ browser[c].full = 0
    BY <1>2, <1>3 DEF Showing, Browser
  <2>2. ClientOK(c)
    BY <1>2, <1>3, <1>5, <2>1, Orders DEF ClientOK, BrowserOK
  <2>3. Fulls(c) = {} /\ Told(c, browser[c].shows)
    BY <1>5, <2>1 DEF Fulls, Coming, Told
  <2> QED BY <2>2, <2>3 DEF ClientCovered, Covered
<1> QED BY <1>4, <1>6, <1>7 DEF BInv, BrowsersOK, ClientsCovered

(* Every step keeps the invariant.                                         *)
LEMMA StepHolds == ASSUME BInv, [Next]_vars PROVE BInv'
<1>1. CASE UNCHANGED vars
  BY <1>1, StutterStep
<1>2. CASE Next
  BY <1>2, TickStep, ChangePhaseStep, CommitStep, FailSaveStep, AttachedStep,
     AttachFailsStep, HearLateStep, RestartStep, DrainStep, CommandStep, BreakStep,
     LeaveStep, RejoinStep, AttachStep, SendStep DEF Next
<1> QED BY <1>1, <1>2

(* The invariant of the broadcasts.                                        *)
THEOREM BroadcastsAreSound == Spec => []BInv
<1> QED BY InitHolds, StepHolds, PTL DEF Spec

-----------------------------------------------------------------------------
(* The types of the broadcasts.                                            *)
LEMMA SoundIsTyped == ASSUME BInv PROVE TypeOK
<1>1. ASSUME NEW t \in Task PROVE task[t].targets \subseteq Registered
  BY DEF BInv, TasksOK, Busy, Idle
<1>2. \A c \in Client : browser[c].shows \in Session
  BY Browsers DEF BInv, Browser
<1> QED BY <1>1, <1>2 DEF BInv, CopiesOK, MarksOK, WriterOK, TypeOK

(* Every variable has its type, for any number of players, clients and     *)
(* broadcasts under way.                                                   *)
THEOREM TypesKept == Spec => []TypeOK
<1> QED BY SoundIsTyped, BroadcastsAreSound, PTL

(* In a sound state a connected client that nothing is on its way to is    *)
(* current.                                                                *)
LEMMA SoundIsCurrent == ASSUME BInv PROVE QuietMeansCurrent
<1> SUFFICES ASSUME NEW c \in Client, Quiet, Connected(c),
                    browser[c].full >= undone, browser[c].missed <= browser[c].full
             PROVE  browser[c].shows = cached
  BY DEF QuietMeansCurrent
<1>1. Covered(c, browser[c].shows)
  BY DEF BInv, ClientsCovered, ClientCovered
<1>2. Busy = {} /\ writer.op = "none" /\ dirty = {}
  BY DEF Quiet, Free, Busy, NoWriter, BInv, MarksOK
<1>3. PICK s : s = browser[c].shows
  OBVIOUS
<1>4. /\ s.phase = cached.phase /\ s.ticks = cached.ticks /\ s.rev = cached.rev
      /\ \A p \in Player : s.work[p] = cached.work[p]
  BY <1>1, <1>2, <1>3 DEF Covered, Pending, Told, Patching, Fulls, About, Coming
<1>5. s \in Session /\ cached \in Session
  BY <1>3, Browsers DEF BInv, Browser, CopiesOK
<1> QED BY <1>3, <1>4, <1>5 DEF Session

(* A connected client that nothing is on its way to shows the session as   *)
(* the server has it, since its last full state, unless something was      *)
(* taken back since or something newer was dropped: the marks, the drains, *)
(* the first states and the patches leave no gap for a change to be lost   *)
(* in, however many messages overtake each other.                          *)
THEOREM QuietClientsAreCurrent == Spec => []QuietMeansCurrent
<1> QED BY SoundIsCurrent, BroadcastsAreSound, PTL

-----------------------------------------------------------------------------
(* One tab.                                                                *)
(*                                                                         *)
(* What an operation reserves from outside a session is waited for by a    *)
(* task of the view it was begun in, or of the app bar: no button of that  *)
(* view leads away from it meanwhile.                                      *)
Home == [SignIn |-> "SignIn", Logout |-> "App", Manage |-> "AccountHome",
         Join |-> "PickCharacter", Resume |-> "AccountHome", Review |-> "App",
         Save |-> "CreateCharacter", Edit |-> "App"]

Accounted ==
  /\ account \in Account \union {Nobody} /\ ((screen = "SignIn") <=> (account = Nobody))
  /\ pending.kind \notin {"none", "SignIn", "Logout"} => account # Nobody
  /\ mine \in {Nobody, account}
  /\ loads \subseteq [owner: Account, live: BOOLEAN]
  /\ \A r \in loads : r.live => r.owner = account /\ account # Nobody
Seated ==
  /\ screen = "Session" \/ socket => snapshot # 0
  /\ snapshot # 0 => /\ account # Nobody
                     /\ game.of \in {0, snapshot} /\ bundle \in {0, snapshot}
  /\ game.phase \in T!Phase
Waiting == \A t \in tasks :
  /\ t = [kind |-> t.kind, id |-> t.id, view |-> t.view, of |-> t.of]
  /\ t.view \in {T!View(screen, game), "App"}
  /\ t.kind \in T!Flow => t.view = Home[t.kind]
Awaited == pending.kind # "none" /\ ~pending.inside =>
  pending.kind \in T!Flow /\ snapshot = 0 /\ \E t \in tasks : T!IsCurrent(t)

TInv == Accounted /\ Seated /\ Waiting /\ Awaited

(* What an operation reserves is waited for by its task.                   *)
LEMMA TabReserved ==
  ASSUME NEW kind, NEW view, T!Reserve(kind, view),
         view \in {T!View(screen, game)', "App"}
  PROVE  /\ pending.kind = "none" /\ pending'.kind = kind /\ pending'.inside = (snapshot # 0)
         /\ \E t \in tasks' : T!IsCurrent(t)'
<1>1. PICK id : /\ pending' = [kind |-> kind, id |-> id, inside |-> snapshot # 0]
                /\ tasks' = T!Kept(tasks \union
                     {[kind |-> kind, id |-> id, view |-> view, of |-> snapshot]})
                /\ pending.kind = "none"
  BY DEF T!Reserve
<1> DEFINE t == [kind |-> kind, id |-> id, view |-> view, of |-> snapshot]
<1>2. t \in tasks'
  BY <1>1 DEF T!Kept, T!View
<1>3. pending'.kind = t.kind /\ pending'.id = t.id
  BY <1>1
<1>4. pending'.kind = kind /\ pending'.inside = (snapshot # 0)
  BY <1>1
<1> HIDE DEF t
<1> QED BY <1>1, <1>2, <1>3, <1>4 DEF T!IsCurrent

(* Lists that are emptied, or whose loading is no longer waited for, show  *)
(* nobody's.                                                               *)
LEMMA TabCleared ==
  ASSUME TInv, T!ClearLists
  PROVE  /\ mine' = Nobody /\ loads' \subseteq [owner: Account, live: BOOLEAN]
         /\ \A r \in loads' : ~r.live
<1>1. loads \subseteq [owner: Account, live: BOOLEAN]
  BY DEF TInv, Accounted
<1>2. ASSUME NEW r \in [owner: Account, live: BOOLEAN]
      PROVE  /\ [r EXCEPT !.live = FALSE] \in [owner: Account, live: BOOLEAN]
             /\ ~[r EXCEPT !.live = FALSE].live
  OBVIOUS
<1> QED BY <1>1, <1>2 DEF T!ClearLists

(* Signing in.                                                             *)
LEMMA TabSignIn ==
  ASSUME TInv, T!SignIn
  PROVE  TInv'
<1>1. Accounted'
  BY DEF TInv, Accounted, T!SignIn, T!Reserve, T!Stays
<1>2. Seated'
  BY DEF TInv, Seated, T!SignIn, T!Stays
<1>3. Waiting'
  BY DEF TInv, Waiting, Home, T!SignIn, T!Reserve, T!Kept
<1>4. Awaited'
  <2>1. PICK view : view = "SignIn"
    OBVIOUS
  <2>2. T!Reserve("SignIn", view)
    BY <2>1 DEF T!SignIn, T!Reserve
  <2>3. view \in {T!View(screen, game)', "App"}
    BY <2>1 DEF T!View, T!SignIn, T!Stays
  <2>4. /\ pending'.kind = "SignIn" /\ pending'.inside = (snapshot # 0)
        /\ \E u \in tasks' : T!IsCurrent(u)'
    BY <2>2, <2>3, TabReserved
  <2>5. snapshot = 0 => snapshot' = 0 /\ "SignIn" \in T!Flow
    BY DEF T!Flow, T!SignIn, T!Stays
  <2> QED BY <2>4, <2>5 DEF Awaited, T!IsCurrent
<1> QED BY <1>1, <1>2, <1>3, <1>4 DEF TInv

(* The answer to it.                                                       *)
LEMMA TabSignedIn ==
  ASSUME TInv, NEW t \in tasks, T!SignedIn(t)
  PROVE  TInv'
<1>1. Accounted'
  BY ClientAssumption
     DEF TInv, Accounted, Seated, Waiting, Home, T!View, T!Phase, T!Flow, T!SignedIn,
         T!Released, T!None
<1>2. Seated'
  BY DEF TInv, Accounted, Seated, Waiting, Home, T!View, T!Phase, T!Flow, T!SignedIn
<1>3. Waiting'
  BY DEF TInv, Waiting, T!SignedIn, T!Ends, T!Kept
<1>4. Awaited'
  BY DEF TInv, Waiting, Awaited, T!IsCurrent, T!SignedIn, T!Ends, T!Kept, T!Released,
         T!None
<1> QED BY <1>1, <1>2, <1>3, <1>4 DEF TInv

(* Signing out empties the lists.                                          *)
LEMMA TabLogout ==
  ASSUME TInv, T!Logout
  PROVE  TInv'
<1>1. Accounted'
  <2>1. account' = Nobody /\ screen' = "SignIn" /\ pending'.kind = "Logout"
    BY DEF T!Logout, T!LeavesSession, T!Reserve
  <2>2. T!ClearLists
    BY DEF T!Logout
  <2> QED BY <2>1, <2>2, TabCleared DEF Accounted
<1>2. Seated'
  BY DEF TInv, Seated, T!Logout, T!LeavesSession
<1>3. Waiting'
  BY DEF TInv, Waiting, Home, T!Logout, T!Reserve, T!Kept
<1>4. Awaited'
  <2>1. PICK view : view = "App"
    OBVIOUS
  <2>2. T!Reserve("Logout", view)
    BY <2>1 DEF T!Logout, T!Reserve
  <2>3. view \in {T!View(screen, game)', "App"}
    BY <2>1
  <2>4. /\ pending'.kind = "Logout" /\ pending'.inside = (snapshot # 0)
        /\ \E u \in tasks' : T!IsCurrent(u)'
    BY <2>2, <2>3, TabReserved
  <2>5. snapshot = 0 => snapshot' = 0 /\ "Logout" \in T!Flow
    BY DEF T!Flow, T!Logout, T!LeavesSession
  <2> QED BY <2>4, <2>5 DEF Awaited, T!IsCurrent
<1> QED BY <1>1, <1>2, <1>3, <1>4 DEF TInv

(* The answer to it.                                                       *)
LEMMA TabLoggedOut ==
  ASSUME TInv, NEW t \in tasks, T!LoggedOut(t)
  PROVE  TInv'
<1>1. Accounted'
  BY DEF TInv, Accounted, T!LoggedOut, T!Released, T!None, T!Stays
<1>2. Seated'
  BY DEF TInv, Seated, T!LoggedOut, T!Stays
<1>3. Waiting'
  BY DEF TInv, Waiting, T!LoggedOut, T!Ends, T!Kept
<1>4. Awaited'
  BY DEF TInv, Waiting, Awaited, T!IsCurrent, T!LoggedOut, T!Ends, T!Kept, T!Released,
         T!None, T!Stays
<1> QED BY <1>1, <1>2, <1>3, <1>4 DEF TInv

(* Listing the account's characters.                                       *)
LEMMA TabLoadMine ==
  ASSUME TInv, T!LoadMine
  PROVE  TInv'
<1>1. Accounted'
  <2>1. account \in Account /\ pending.kind = "none"
    BY DEF TInv, Accounted, T!LoadMine
  <2>2. [owner |-> account, live |-> TRUE] \in [owner: Account, live: BOOLEAN]
    BY <2>1
  <2>3. [owner |-> account, live |-> TRUE].owner = account
    OBVIOUS
  <2> QED BY <2>1, <2>2, <2>3 DEF TInv, Accounted, T!LoadMine
<1>2. Seated'
  BY DEF TInv, Seated, T!LoadMine
<1>3. Waiting'
  BY DEF TInv, Waiting, T!LoadMine
<1>4. Awaited'
  BY DEF Awaited, T!LoadMine
<1> QED BY <1>1, <1>2, <1>3, <1>4 DEF TInv

(* They are shown if they are still waited for.                            *)
LEMMA TabLoadedMine ==
  ASSUME TInv, NEW r \in loads, T!LoadedMine(r)
  PROVE  TInv'
<1>1. Accounted'
  BY DEF TInv, Accounted, T!LoadedMine
<1>2. Seated'
  BY DEF TInv, Seated, T!LoadedMine
<1>3. Waiting'
  BY DEF TInv, Waiting, T!LoadedMine
<1>4. Awaited'
  BY DEF TInv, Awaited, T!IsCurrent, T!LoadedMine
<1> QED BY <1>1, <1>2, <1>3, <1>4 DEF TInv

(* Editing a character.                                                    *)
LEMMA TabEdit ==
  ASSUME TInv, T!Edit
  PROVE  TInv'
<1>1. Accounted'
  BY DEF TInv, Accounted, T!Edit, T!Stays
<1>2. Seated'
  BY DEF TInv, Seated, T!Edit, T!Stays
<1>3. Waiting'
  BY DEF TInv, Waiting, Home, T!Edit, T!Reserve, T!Kept
<1>4. Awaited'
  <2>1. PICK view : view = "App"
    OBVIOUS
  <2>2. T!Reserve("Edit", view)
    BY <2>1 DEF T!Edit, T!Reserve
  <2>3. view \in {T!View(screen, game)', "App"}
    BY <2>1
  <2>4. /\ pending'.kind = "Edit" /\ pending'.inside = (snapshot # 0)
        /\ \E u \in tasks' : T!IsCurrent(u)'
    BY <2>2, <2>3, TabReserved
  <2>5. snapshot = 0 => snapshot' = 0 /\ "Edit" \in T!Flow
    BY DEF T!Flow, T!Edit, T!Stays
  <2> QED BY <2>4, <2>5 DEF Awaited, T!IsCurrent
<1> QED BY <1>1, <1>2, <1>3, <1>4 DEF TInv

(* The answer to it.                                                       *)
LEMMA TabEdited ==
  ASSUME TInv, NEW t \in tasks, T!Edited(t)
  PROVE  TInv'
<1>1. Accounted'
  BY DEF TInv, Accounted, T!Edited, T!Released, T!None, T!Stays
<1>2. Seated'
  BY DEF TInv, Seated, T!Edited, T!Stays
<1>3. Waiting'
  BY DEF TInv, Waiting, T!Edited, T!Ends, T!Kept
<1>4. Awaited'
  BY DEF TInv, Waiting, Awaited, T!IsCurrent, T!Edited, T!Ends, T!Kept, T!Released,
         T!None, T!Stays
<1> QED BY <1>1, <1>2, <1>3, <1>4 DEF TInv

(* Going from screen to screen, away from no operation's own view.         *)
LEMMA TabBrowse ==
  ASSUME TInv, T!Browse
  PROVE  TInv'
<1>1. Accounted'
  BY DEF TInv, Accounted, T!Browse, T!Navigate, T!OpenForm, T!GoHome, T!WordmarkEnabled
<1>2. Seated'
  BY DEF TInv, Seated, T!Browse, T!Navigate
<1>3. Waiting'
  BY DEF TInv, Waiting, T!Browse, T!Navigate, T!Kept
<1>4. Awaited'
  BY DEF TInv, Waiting, Awaited, Home, T!View, T!Flow, T!IsCurrent, T!Browse,
         T!Navigate, T!OpenForm, T!GoHome, T!WordmarkEnabled, T!FlowPending, T!Kept
<1> QED BY <1>1, <1>2, <1>3, <1>4 DEF TInv

(* Managing a workshop.                                                    *)
LEMMA TabManage ==
  ASSUME TInv, T!Manage
  PROVE  TInv'
<1>1. Accounted'
  BY DEF TInv, Accounted, T!Manage, T!Stays
<1>2. Seated'
  BY DEF TInv, Seated, T!Manage, T!Stays
<1>3. Waiting'
  BY DEF TInv, Waiting, Home, T!Manage, T!Reserve, T!Kept
<1>4. Awaited'
  <2>1. PICK view : view = "AccountHome"
    OBVIOUS
  <2>2. T!Reserve("Manage", view)
    BY <2>1 DEF T!Manage, T!Reserve
  <2>3. view \in {T!View(screen, game)', "App"}
    BY <2>1 DEF T!View, T!Manage, T!Stays
  <2>4. /\ pending'.kind = "Manage" /\ pending'.inside = (snapshot # 0)
        /\ \E u \in tasks' : T!IsCurrent(u)'
    BY <2>2, <2>3, TabReserved
  <2>5. snapshot = 0 => snapshot' = 0 /\ "Manage" \in T!Flow
    BY DEF T!Flow, T!Manage, T!Stays
  <2> QED BY <2>4, <2>5 DEF Awaited, T!IsCurrent
<1> QED BY <1>1, <1>2, <1>3, <1>4 DEF TInv

(* The answer to a creation.                                               *)
LEMMA TabCreated ==
  ASSUME TInv, NEW t \in tasks, T!Created(t)
  PROVE  TInv'
<1>1. Accounted'
  BY DEF TInv, Accounted, T!Created, T!None
<1>2. Seated'
  BY DEF TInv, Seated, T!Created
<1>3. Waiting'
  BY DEF TInv, Waiting, T!Created, T!Ends, T!Kept
<1>4. Awaited'
  BY DEF Awaited, T!Created, T!None
<1> QED BY <1>1, <1>2, <1>3, <1>4 DEF TInv

(* The answer to an update or a removal.                                   *)
LEMMA TabManaged ==
  ASSUME TInv, NEW t \in tasks, T!Managed(t)
  PROVE  TInv'
<1>1. Accounted'
  BY DEF TInv, Accounted, T!Managed, T!Released, T!None, T!Stays
<1>2. Seated'
  BY DEF TInv, Seated, T!Managed, T!Stays
<1>3. Waiting'
  BY DEF TInv, Waiting, T!Managed, T!Ends, T!Kept
<1>4. Awaited'
  BY DEF TInv, Waiting, Awaited, T!IsCurrent, T!Managed, T!Ends, T!Kept, T!Released,
         T!None, T!Stays
<1> QED BY <1>1, <1>2, <1>3, <1>4 DEF TInv

(* Saving a character.                                                     *)
LEMMA TabSave ==
  ASSUME TInv, T!Save
  PROVE  TInv'
<1>1. Accounted'
  BY DEF TInv, Accounted, T!Save, T!Stays
<1>2. Seated'
  BY DEF TInv, Seated, T!Save, T!Stays
<1>3. Waiting'
  BY DEF TInv, Waiting, Home, T!Save, T!Reserve, T!Kept
<1>4. Awaited'
  <2>1. PICK view : view = "CreateCharacter"
    OBVIOUS
  <2>2. T!Reserve("Save", view)
    BY <2>1 DEF T!Save, T!Reserve
  <2>3. view \in {T!View(screen, game)', "App"}
    BY <2>1 DEF T!View, T!Save, T!Stays
  <2>4. /\ pending'.kind = "Save" /\ pending'.inside = (snapshot # 0)
        /\ \E u \in tasks' : T!IsCurrent(u)'
    BY <2>2, <2>3, TabReserved
  <2>5. snapshot = 0 => snapshot' = 0 /\ "Save" \in T!Flow
    BY DEF T!Flow, T!Save, T!Stays
  <2> QED BY <2>4, <2>5 DEF Awaited, T!IsCurrent
<1> QED BY <1>1, <1>2, <1>3, <1>4 DEF TInv

(* The answer to it.                                                       *)
LEMMA TabSaved ==
  ASSUME TInv, NEW t \in tasks, T!Saved(t)
  PROVE  TInv'
<1>1. Accounted'
  BY DEF TInv, Accounted, T!IsCurrent, T!Saved, T!Released
<1>2. Seated'
  BY DEF TInv, Seated, T!Saved
<1>3. Waiting'
  BY DEF TInv, Waiting, T!Saved, T!Ends, T!Kept
<1>4. Awaited'
  BY DEF TInv, Waiting, Awaited, T!IsCurrent, T!Saved, T!Ends, T!Kept, T!Released, T!None
<1> QED BY <1>1, <1>2, <1>3, <1>4 DEF TInv

(* Joining, resuming or reviewing a workshop.                              *)
LEMMA TabEnter ==
  ASSUME TInv, NEW kind \in {"Join", "Resume", "Review"}, T!Enter(kind)
  PROVE  TInv'
<1>1. Accounted'
  BY DEF TInv, Accounted, T!Enter
<1>2. Seated'
  BY DEF TInv, Seated, T!Enter
<1>3. Waiting'
  BY DEF TInv, Waiting, Home, T!Enter, T!Reserve, T!Kept
<1>4. Awaited'
  <2>1. PICK view : view = IF kind = "Review" THEN "App" ELSE screen
    OBVIOUS
  <2>2. T!Reserve(kind, view)
    BY <2>1 DEF T!Enter, T!Reserve
  <2>3. view \in {T!View(screen, game)', "App"}
    BY <2>1 DEF T!View, T!Enter
  <2>4. /\ pending'.kind = kind /\ pending'.inside = (snapshot # 0)
        /\ \E u \in tasks' : T!IsCurrent(u)'
    BY <2>2, <2>3, TabReserved
  <2>5. snapshot = 0 => snapshot' = 0 /\ kind \in T!Flow
    BY DEF T!Flow, T!Enter
  <2> QED BY <2>4, <2>5 DEF Awaited, T!IsCurrent
<1> QED BY <1>1, <1>2, <1>3, <1>4 DEF TInv

(* The tab enters a session.                                               *)
LEMMA TabEntered ==
  ASSUME TInv, NEW t \in tasks, t.kind \in {"Join", "Resume", "Review"}, T!Entered(t)
  PROVE  TInv'
<1>1. PICK visit \in 1 .. MaxSessions, p \in T!Phase :
        /\ screen' = "Session" /\ snapshot' = visit /\ bundle' = 0 /\ pending' = T!None
        /\ T!Synced(restored, visit, p)
        /\ mine' = IF t.kind = "Resume" THEN mine ELSE Nobody
        /\ tasks' = T!Kept((tasks \ {t}) \union
             (IF t.kind = "Review" THEN {[t EXCEPT !.kind = "Bundle", !.of = visit]} ELSE {}))
  BY DEF T!Entered, T!Fresh
<1>2. account' = account /\ loads' = loads /\ account # Nobody
  BY DEF T!Entered, T!IsCurrent, TInv, Accounted
<1>3. Accounted'
  BY <1>1, <1>2 DEF TInv, Accounted
<1>4. Seated'
  <2>1. game'.of \in {0, visit} /\ game'.phase \in T!Phase
    BY <1>1 DEF T!Synced, T!NoGame, T!Phase
  <2> QED BY <1>1, <1>2, <2>1, ClientAssumption DEF Seated
<1>5. Waiting'
  <2>1. ASSUME NEW u \in tasks'
        PROVE  /\ u = [kind |-> u.kind, id |-> u.id, view |-> u.view, of |-> u.of]
               /\ u.kind \in T!Flow => u.view = Home[u.kind]
    <3>1. CASE u \in tasks
      BY <3>1 DEF TInv, Waiting
    <3>2. CASE u \notin tasks
      <4>1. u = [t EXCEPT !.kind = "Bundle", !.of = visit]
        BY <1>1, <3>2 DEF T!Kept
      <4>2. t = [kind |-> t.kind, id |-> t.id, view |-> t.view, of |-> t.of]
        BY DEF TInv, Waiting
      <4>3. u = [kind |-> "Bundle", id |-> t.id, view |-> t.view, of |-> visit]
        BY <4>1, <4>2
      <4> QED BY <4>3 DEF T!Flow
    <3> QED BY <3>1, <3>2
  <2>2. \A u \in tasks' : u.view \in {T!View(screen, game)', "App"}
    BY <1>1 DEF T!Kept, T!View
  <2> QED BY <2>1, <2>2 DEF Waiting
<1>6. Awaited'
  BY <1>1 DEF Awaited, T!None
<1> QED BY <1>3, <1>4, <1>5, <1>6 DEF TInv

(* It is refused.                                                          *)
LEMMA TabRefused ==
  ASSUME TInv, NEW t \in tasks, t.kind \in {"Join", "Resume", "Review"}, T!Refused(t)
  PROVE  TInv'
<1>1. Accounted'
  BY DEF TInv, Accounted, T!IsCurrent, T!Refused, T!LeavesSession
<1>2. Seated'
  BY DEF TInv, Seated, T!Refused, T!LeavesSession
<1>3. Waiting'
  BY DEF TInv, Waiting, T!Refused, T!Ends, T!Kept
<1>4. Awaited'
  BY DEF Awaited, T!Refused, T!None
<1> QED BY <1>1, <1>2, <1>3, <1>4 DEF TInv

(* An answer nothing waits for any more.                                   *)
LEMMA TabLate ==
  ASSUME TInv, NEW t \in tasks, T!Late(t)
  PROVE  TInv'
<1>1. Accounted'
  BY DEF TInv, Accounted, T!Late, T!Stays
<1>2. Seated'
  BY DEF TInv, Seated, T!Late, T!Stays
<1>3. Waiting'
  BY DEF TInv, Waiting, T!Late, T!Ends, T!Kept
<1>4. Awaited'
  BY DEF TInv, Waiting, Awaited, T!IsCurrent, T!Late, T!Ends, T!Kept, T!Stays
<1> QED BY <1>1, <1>2, <1>3, <1>4 DEF TInv

(* The archive of a review.                                                *)
LEMMA TabReviewed ==
  ASSUME TInv, NEW t \in tasks, T!Reviewed(t)
  PROVE  TInv'
<1>1. Accounted'
  BY DEF TInv, Accounted, T!Reviewed, T!Stays
<1>2. Seated'
  BY DEF TInv, Seated, T!Reviewed, T!Stays, T!SameSession
<1>3. Waiting'
  BY DEF TInv, Waiting, T!Reviewed, T!Ends, T!Kept
<1>4. Awaited'
  BY DEF TInv, Waiting, Awaited, T!Flow, T!IsCurrent, T!Reviewed, T!Ends, T!Kept, T!Stays
<1> QED BY <1>1, <1>2, <1>3, <1>4 DEF TInv

(* Leaving the session.                                                    *)
LEMMA TabLeave ==
  ASSUME TInv, T!Leave
  PROVE  TInv'
<1>1. Accounted'
  BY DEF TInv, Accounted, T!Leave, T!LeavesSession, T!ClearLists
<1>2. Seated'
  BY DEF Seated, T!Phase, T!Leave, T!LeavesSession
<1>3. Waiting'
  BY DEF TInv, Waiting, T!Leave, T!Kept
<1>4. Awaited'
  BY DEF Awaited, T!Leave, T!None
<1> QED BY <1>1, <1>2, <1>3, <1>4 DEF TInv

(* Giving up a session that is being restored.                             *)
LEMMA TabGiveUp ==
  ASSUME TInv, T!GiveUp
  PROVE  TInv'
<1>1. Accounted'
  BY DEF TInv, Accounted, T!View, T!GiveUp, T!LeavesSession
<1>2. Seated'
  BY DEF TInv, Seated, T!GiveUp, T!LeavesSession
<1>3. Waiting'
  BY DEF TInv, Waiting, T!GiveUp, T!Kept
<1>4. Awaited'
  BY DEF Awaited, T!GiveUp, T!None
<1> QED BY <1>1, <1>2, <1>3, <1>4 DEF TInv

(* Loading the page again.                                                 *)
LEMMA TabReload ==
  ASSUME TInv, T!Reload
  PROVE  TInv'
<1>1. Accounted'
  BY DEF TInv, Accounted, T!Reload
<1>2. Seated'
  BY DEF Seated, T!Phase, T!Reload, T!Synced, T!NoGame
<1>3. Waiting'
  BY DEF Waiting, T!Reload
<1>4. Awaited'
  BY DEF Awaited, T!Reload, T!None
<1> QED BY <1>1, <1>2, <1>3, <1>4 DEF TInv

(* A command.                                                              *)
LEMMA TabSend ==
  ASSUME TInv, NEW command \in T!Command, T!Send(command)
  PROVE  TInv'
<1>1. Accounted'
  BY DEF TInv, Accounted, T!Send, T!Stays
<1>2. Seated'
  BY DEF TInv, Seated, T!Send, T!Stays
<1>3. Waiting'
  BY DEF TInv, Waiting, T!Flow, T!Command, T!Send, T!Reserve, T!Kept, T!Command
<1>4. Awaited'
  <2>1. PICK view : view = T!View(screen, game)
    OBVIOUS
  <2>2. T!Reserve(command, view)
    BY <2>1 DEF T!Send, T!Reserve
  <2>3. view \in {T!View(screen, game)', "App"}
    BY <2>1 DEF T!Send, T!Stays
  <2>4. /\ pending'.kind = command /\ pending'.inside = (snapshot # 0)
        /\ \E u \in tasks' : T!IsCurrent(u)'
    BY <2>2, <2>3, TabReserved
  <2>5. snapshot = 0 => snapshot' = 0 /\ command \in T!Flow
    BY DEF TInv, Seated, T!Send
  <2> QED BY <2>4, <2>5 DEF Awaited, T!IsCurrent
<1> QED BY <1>1, <1>2, <1>3, <1>4 DEF TInv

(* The answer to it.                                                       *)
LEMMA TabSent ==
  ASSUME TInv, NEW t \in tasks, T!Sent(t)
  PROVE  TInv'
<1>1. Accounted'
  BY DEF TInv, Accounted, T!IsCurrent, T!Sent, T!Released, T!Stays, T!LeavesSession,
         T!Command
<1>2. Seated'
  BY DEF TInv, Seated, T!Sent, T!Stays, T!LeavesSession
<1>3. Waiting'
  BY DEF TInv, Waiting, T!Sent, T!Ends, T!Kept
<1>4. Awaited'
  BY DEF TInv, Waiting, Awaited, T!IsCurrent, T!Sent, T!Ends, T!Kept, T!Released,
         T!None, T!Stays
<1> QED BY <1>1, <1>2, <1>3, <1>4 DEF TInv

(* Asking for the archive.                                                 *)
LEMMA TabArchive ==
  ASSUME TInv, T!Archive
  PROVE  TInv'
<1>1. Accounted'
  BY DEF TInv, Accounted, T!Archive, T!Stays
<1>2. Seated'
  BY DEF TInv, Seated, T!Archive, T!Stays
<1>3. Waiting'
  BY DEF TInv, Waiting, T!Flow, T!Archive, T!Reserve, T!Kept
<1>4. Awaited'
  <2>1. PICK view : view = T!View(screen, game)
    OBVIOUS
  <2>2. T!Reserve("Archive", view)
    BY <2>1 DEF T!Archive, T!Reserve
  <2>3. view \in {T!View(screen, game)', "App"}
    BY <2>1 DEF T!Archive, T!Stays
  <2>4. /\ pending'.kind = "Archive" /\ pending'.inside = (snapshot # 0)
        /\ \E u \in tasks' : T!IsCurrent(u)'
    BY <2>2, <2>3, TabReserved
  <2>5. snapshot = 0 => snapshot' = 0 /\ "Archive" \in T!Flow
    BY DEF TInv, Seated, T!Archive
  <2> QED BY <2>4, <2>5 DEF Awaited, T!IsCurrent
<1> QED BY <1>1, <1>2, <1>3, <1>4 DEF TInv

(* The answer to it.                                                       *)
LEMMA TabArchived ==
  ASSUME TInv, NEW t \in tasks, T!Archived(t)
  PROVE  TInv'
<1>1. Accounted'
  BY DEF TInv, Accounted, T!IsCurrent, T!Archived, T!Released, T!Stays, T!LeavesSession
<1>2. Seated'
  BY DEF TInv, Seated, T!Archived, T!Stays, T!LeavesSession
<1>3. Waiting'
  BY DEF TInv, Waiting, T!Archived, T!Ends, T!Kept
<1>4. Awaited'
  BY DEF TInv, Waiting, Awaited, T!IsCurrent, T!Archived, T!Ends, T!Kept, T!Released,
         T!None, T!Stays
<1> QED BY <1>1, <1>2, <1>3, <1>4 DEF TInv

(* A full state.                                                           *)
LEMMA TabStateUpdate ==
  ASSUME TInv, NEW p \in T!Phase, T!StateUpdate(p)
  PROVE  TInv'
<1>1. Accounted'
  BY DEF TInv, Accounted, Seated, T!StateUpdate
<1>2. Seated'
  BY DEF TInv, Seated, T!StateUpdate
<1>3. Waiting'
  BY DEF TInv, Waiting, T!StateUpdate, T!Kept
<1>4. Awaited'
  BY DEF TInv, Seated, Awaited, T!StateUpdate, T!None
<1> QED BY <1>1, <1>2, <1>3, <1>4 DEF TInv

(* The socket closes.                                                      *)
LEMMA TabDrop ==
  ASSUME TInv, T!Drop
  PROVE  TInv'
<1>1. Accounted'
  BY DEF TInv, Accounted, Seated, T!Drop, T!LeavesSession
<1>2. Seated'
  BY DEF TInv, Seated, T!Phase, T!Drop, T!LeavesSession, T!Disconnected, T!NoGame
<1>3. Waiting'
  BY DEF TInv, Waiting, T!Drop, T!Kept
<1>4. Awaited'
  BY DEF TInv, Seated, Awaited, T!Drop
<1> QED BY <1>1, <1>2, <1>3, <1>4 DEF TInv

(* Nothing happens to the tab.                                             *)
LEMMA TabStutters == ASSUME TInv, UNCHANGED tabVars PROVE TInv'
BY DEF TInv, Accounted, Seated, Waiting, Awaited, tabVars, T!View, T!IsCurrent

(* At first nobody is signed in.                                           *)
LEMMA TabInit == ASSUME T!Init PROVE TInv
BY DEF TInv, Accounted, Seated, Waiting, Awaited, T!Init, T!None, T!NoGame, T!Phase

(* Every step of a tab keeps the invariant.                                *)
LEMMA TabSteps == ASSUME TInv, T!Next PROVE TInv'
<1>1. ASSUME NEW t \in tasks, T!Answered(t) PROVE TInv'
  BY <1>1, TabEntered, TabRefused, TabLate DEF T!Answered
<1>2. CASE T!AnAnswer
  BY <1>1, <1>2, TabSignedIn, TabLoggedOut, TabEdited, TabCreated, TabManaged, TabSaved,
     TabReviewed, TabSent, TabArchived DEF T!AnAnswer
<1>3. CASE \E r \in loads : T!LoadedMine(r)
  BY <1>3, TabLoadedMine
<1>4. CASE (\E command \in T!Command : T!Send(command)) \/ \E p \in T!Phase : T!StateUpdate(p)
  BY <1>4, TabSend, TabStateUpdate
<1>5. CASE \E kind \in {"Join", "Resume", "Review"} : T!Enter(kind)
  BY <1>5, TabEnter
<1> QED
  BY <1>2, <1>3, <1>4, <1>5, TabSignIn, TabLogout, TabLoadMine, TabEdit, TabBrowse,
     TabManage, TabSave, TabLeave, TabGiveUp, TabReload, TabArchive, TabDrop DEF T!Next

-----------------------------------------------------------------------------
(* The types of the tab's variables.                                       *)
Kinds == T!Flow \union T!Command \union {"Archive"}
Screens ==
  /\ screen \in {"SignIn", "AccountHome", "CreateCharacter", "PickCharacter", "Session"}
  /\ snapshot \in 0..MaxSessions /\ bundle \in 0..MaxSessions
  /\ status \in {"Offline", "Connecting", "Connected"}
  /\ restored \in BOOLEAN /\ socket \in BOOLEAN
  /\ game \in [of: 0..MaxSessions, phase: T!Phase]
Operations ==
  /\ pending \in [kind: Kinds \union {"none"}, id: 0..MaxTasks, inside: BOOLEAN]
  /\ \A t \in tasks : /\ t.kind \in Kinds \union {"Bundle"}
                      /\ t.id \in 1..MaxTasks /\ t.of \in 0..MaxSessions

(* A reservation is one of an operation, and its task's.                   *)
LEMMA ReserveTyped ==
  ASSUME Screens, Operations, NEW kind \in Kinds, NEW view, T!Reserve(kind, view)
  PROVE  Operations'
<1>1. PICK id \in 1..MaxTasks :
        /\ pending' = [kind |-> kind, id |-> id, inside |-> snapshot # 0]
        /\ tasks' \in SUBSET (tasks \union
             {[kind |-> kind, id |-> id, view |-> view, of |-> snapshot]})
  BY DEF T!Reserve, T!Fresh, T!Kept
<1>2. pending' \in [kind: Kinds \union {"none"}, id: 0..MaxTasks, inside: BOOLEAN]
  <2>1. id \in 0..MaxTasks
    BY ClientAssumption
  <2> QED BY <1>1, <2>1
<1>3. ASSUME NEW t \in tasks'
      PROVE  t.kind \in Kinds \union {"Bundle"} /\ t.id \in 1..MaxTasks /\ t.of \in 0..MaxSessions
  BY <1>1, <1>3 DEF Operations, Screens
<1> QED BY <1>2, <1>3 DEF Operations

(* Tasks end, and the reservation with them.                               *)
LEMMA EndsTyped ==
  ASSUME Operations, pending' \in {pending, T!None}, tasks' \in SUBSET tasks
  PROVE  Operations'
<1>1. T!None \in [kind: Kinds \union {"none"}, id: 0..MaxTasks, inside: BOOLEAN]
  BY ClientAssumption DEF T!None
<1> QED BY <1>1 DEF Operations

(* A session's socket is opened, or not.                                   *)
LEMMA SyncedTyped ==
  ASSUME NEW r \in BOOLEAN, NEW visit \in 0..MaxSessions, NEW p \in T!Phase,
         T!Synced(r, visit, p)
  PROVE  /\ status' \in {"Offline", "Connecting", "Connected"} /\ socket' \in BOOLEAN
         /\ game' \in [of: 0..MaxSessions, phase: T!Phase]
<1>1. {T!NoGame, [of |-> visit, phase |-> p]} \in SUBSET [of: 0..MaxSessions, phase: T!Phase]
  BY ClientAssumption DEF T!NoGame, T!Phase
<1>2. game' \in {T!NoGame, [of |-> visit, phase |-> p]}
  BY DEF T!Synced
<1>3. status' \in {"Offline", "Connecting", "Connected"} /\ socket' \in BOOLEAN
  BY DEF T!Synced
<1> QED BY <1>1, <1>2, <1>3

(* The buttons.                                                            *)
LEMMA ButtonsTyped ==
  ASSUME Screens, Operations,
         \/ T!SignIn \/ T!Logout \/ T!LoadMine \/ T!Edit \/ T!Browse \/ T!Manage \/ T!Save
         \/ \E kind \in {"Join", "Resume", "Review"} : T!Enter(kind)
         \/ T!Leave \/ T!GiveUp \/ T!Archive
         \/ \E command \in T!Command : T!Send(command)
  PROVE  Screens' /\ Operations'
<1>1. Screens'
  <2>1. CASE T!SignIn \/ T!Edit \/ T!Manage \/ T!Save \/ T!LoadMine \/ T!Archive
    BY <2>1 DEF Screens, T!SignIn, T!LoadMine, T!Edit, T!Manage, T!Save, T!Archive, T!Stays
  <2>2. CASE T!Logout \/ T!Leave \/ T!GiveUp
    <3>1. /\ screen' \in {"SignIn", "AccountHome"} /\ snapshot' = 0 /\ status' = "Offline"
          /\ restored' = FALSE /\ socket' = FALSE /\ UNCHANGED <<game, bundle>>
      BY <2>2 DEF T!Logout, T!Leave, T!GiveUp, T!LeavesSession
    <3>2. 0 \in 0..MaxSessions
      BY ClientAssumption
    <3> QED BY <3>1, <3>2 DEF Screens
  <2>3. CASE T!Browse
    BY <2>3 DEF Screens, T!Browse, T!Navigate
  <2>4. CASE \E kind \in {"Join", "Resume", "Review"} : T!Enter(kind)
    BY <2>4 DEF Screens, T!Enter
  <2>5. CASE \E command \in T!Command : T!Send(command)
    BY <2>5 DEF Screens, T!Send, T!Stays
  <2> QED BY <2>1, <2>2, <2>3, <2>4, <2>5
<1>2. CASE \/ T!SignIn \/ T!Logout \/ T!Edit \/ T!Manage \/ T!Save \/ T!Archive
           \/ \E kind \in {"Join", "Resume", "Review"} : T!Enter(kind)
           \/ \E command \in T!Command : T!Send(command)
  <2>1. \/ \E kind \in {"SignIn", "Logout", "Edit", "Manage", "Save", "Archive"} :
             \E view : T!Reserve(kind, view)
        \/ \E kind \in {"Join", "Resume", "Review"} \union T!Command :
             \E view : T!Reserve(kind, view)
    BY <1>2 DEF T!SignIn, T!Logout, T!Edit, T!Manage, T!Save, T!Archive, T!Enter, T!Send
  <2>2. /\ {"SignIn", "Logout", "Edit", "Manage", "Save", "Archive"} \in SUBSET Kinds
        /\ {"Join", "Resume", "Review"} \union T!Command \in SUBSET Kinds
    BY DEF Kinds, T!Flow
  <2>3. PICK kind \in Kinds : \E view : T!Reserve(kind, view)
    BY <2>1, <2>2
  <2> QED BY <1>1, <2>3, ReserveTyped
<1>3. CASE T!LoadMine \/ T!Browse \/ T!Leave \/ T!GiveUp
  <2>1. pending' \in {pending, T!None} /\ tasks' \in SUBSET tasks
    <3>1. CASE T!LoadMine
      BY <3>1 DEF T!LoadMine
    <3>2. CASE T!Browse
      BY <3>2 DEF T!Browse, T!Navigate, T!Kept
    <3>3. CASE T!Leave \/ T!GiveUp
      BY <3>3 DEF T!Leave, T!GiveUp, T!Kept
    <3> QED BY <1>3, <3>1, <3>2, <3>3
  <2> QED BY <1>1, <2>1, EndsTyped
<1> QED BY <1>1, <1>2, <1>3

(* What the server says, and a page that is loaded again.                  *)
LEMMA EventsTyped ==
  ASSUME Screens, Operations,
         \/ T!Reload \/ T!Drop
         \/ \E p \in T!Phase : T!StateUpdate(p)
         \/ \E r \in loads : T!LoadedMine(r)
  PROVE  Screens' /\ Operations'
<1>1. Operations'
  <2>1. pending' \in {pending, T!None} /\ tasks' \in SUBSET tasks
    BY DEF T!Reload, T!Drop, T!StateUpdate, T!LoadedMine, T!Kept
  <2> QED BY <2>1, EndsTyped
<1>2. T!NoGame \in [of: 0..MaxSessions, phase: T!Phase] /\ 0 \in 0..MaxSessions
  BY ClientAssumption DEF T!NoGame, T!Phase
<1>3. CASE T!Reload
  <2>1. /\ status' \in {"Offline", "Connecting", "Connected"} /\ socket' \in BOOLEAN
        /\ game' \in [of: 0..MaxSessions, phase: T!Phase]
    <3>1. CASE \E p \in T!Phase : T!Synced(TRUE, snapshot, p)
      BY <3>1, SyncedTyped DEF Screens
    <3>2. CASE ~\E p \in T!Phase : T!Synced(TRUE, snapshot, p)
      BY <1>2, <1>3, <3>2 DEF T!Reload
    <3> QED BY <3>1, <3>2
  <2>2. /\ screen' \in {"Session", "AccountHome"} /\ snapshot' = snapshot /\ bundle' = 0
        /\ restored' = (snapshot # 0)
    BY <1>3 DEF T!Reload
  <2>3. restored' \in BOOLEAN
    BY <2>2
  <2> QED BY <1>1, <1>2, <2>1, <2>2, <2>3 DEF Screens
<1>4. CASE T!Drop
  BY <1>1, <1>2, <1>4 DEF Screens, T!Drop, T!Disconnected, T!LeavesSession
<1>5. CASE \E p \in T!Phase : T!StateUpdate(p)
  <2>1. PICK p \in T!Phase : T!StateUpdate(p)
    BY <1>5
  <2>2. [of |-> snapshot, phase |-> p] \in [of: 0..MaxSessions, phase: T!Phase]
    BY DEF Screens
  <2>3. /\ screen' = "Session" /\ game' \in [of: 0..MaxSessions, phase: T!Phase]
        /\ status' = "Connected" /\ restored' = FALSE /\ UNCHANGED <<snapshot, socket>>
        /\ bundle' \in {bundle, 0}
    BY <2>1, <2>2 DEF T!StateUpdate
  <2> QED BY <1>1, <1>2, <2>3 DEF Screens
<1>6. CASE \E r \in loads : T!LoadedMine(r)
  BY <1>1, <1>6 DEF Screens, T!LoadedMine
<1> QED BY <1>1, <1>3, <1>4, <1>5, <1>6

(* The tab enters a session.                                               *)
LEMMA EnteredTyped ==
  ASSUME TInv, Screens, Operations, NEW t \in tasks, T!Entered(t)
  PROVE  Screens' /\ Operations'
<1>1. PICK visit \in 1..MaxSessions, p \in T!Phase :
        /\ screen' = "Session" /\ snapshot' = visit /\ bundle' = 0 /\ pending' = T!None
        /\ T!Synced(restored, visit, p) /\ restored' = restored
        /\ tasks' \in SUBSET ((tasks \ {t}) \union {[t EXCEPT !.kind = "Bundle", !.of = visit]})
  BY DEF T!Entered, T!Fresh, T!Kept
<1>2. visit \in 0..MaxSessions /\ 0 \in 0..MaxSessions
  BY ClientAssumption
<1>3. /\ status' \in {"Offline", "Connecting", "Connected"} /\ socket' \in BOOLEAN
      /\ game' \in [of: 0..MaxSessions, phase: T!Phase]
  BY <1>1, <1>2, SyncedTyped DEF Screens
<1>4. Screens'
  BY <1>1, <1>2, <1>3 DEF Screens
<1>5. PICK u : u = [t EXCEPT !.kind = "Bundle", !.of = visit]
  OBVIOUS
<1>6. t = [kind |-> t.kind, id |-> t.id, view |-> t.view, of |-> t.of]
  BY DEF TInv, Waiting
<1>7. u = [kind |-> "Bundle", id |-> t.id, view |-> t.view, of |-> visit]
  BY <1>5, <1>6
<1>8. u.kind = "Bundle" /\ u.id \in 1..MaxTasks /\ u.of \in 0..MaxSessions
  BY <1>2, <1>7 DEF Operations
<1>9. T!None \in [kind: Kinds \union {"none"}, id: 0..MaxTasks, inside: BOOLEAN]
  BY ClientAssumption DEF T!None
<1>10. tasks' \in SUBSET (tasks \union {u})
  BY <1>1, <1>5
<1> QED BY <1>1, <1>4, <1>8, <1>9, <1>10 DEF Operations

(* The answers.                                                            *)
LEMMA AnswersTyped ==
  ASSUME TInv, Screens, Operations, T!AnAnswer
  PROVE  Screens' /\ Operations'
<1>1. PICK t \in tasks : \/ T!SignedIn(t) \/ T!LoggedOut(t) \/ T!Edited(t) \/ T!Created(t)
                         \/ T!Managed(t) \/ T!Saved(t) \/ T!Answered(t) \/ T!Reviewed(t)
                         \/ T!Sent(t) \/ T!Archived(t)
  BY DEF T!AnAnswer
<1>2. CASE T!Entered(t)
  BY <1>2, EnteredTyped
<1>3. CASE ~T!Entered(t)
  <2>1. pending' \in {pending, T!None} /\ tasks' \in SUBSET tasks
    BY <1>1, <1>3
       DEF T!SignedIn, T!LoggedOut, T!Edited, T!Created, T!Managed, T!Saved, T!Answered,
           T!Refused, T!Late, T!Reviewed, T!Sent, T!Archived, T!Released, T!Ends, T!Kept
  <2>2. Operations'
    BY <2>1, EndsTyped
  <2>3. t.of \in 0..MaxSessions /\ 0 \in 0..MaxSessions
    BY ClientAssumption DEF Operations
  <2>4. Screens'
    BY <1>1, <1>3, <2>3
       DEF Screens, T!SignedIn, T!LoggedOut, T!Edited, T!Created, T!Managed, T!Saved, T!Answered,
           T!Refused, T!Late, T!Reviewed, T!Sent, T!Archived, T!Stays, T!LeavesSession
  <2> QED BY <2>2, <2>4
<1> QED BY <1>2, <1>3

(* Every step of a tab keeps the types.                                    *)
LEMMA TabStaysTyped ==
  ASSUME TInv, Screens, Operations, T!Next
  PROVE  Screens' /\ Operations'
<1>1. CASE \/ T!Reload \/ T!Drop
           \/ \E p \in T!Phase : T!StateUpdate(p)
           \/ \E r \in loads : T!LoadedMine(r)
  BY <1>1, EventsTyped
<1>2. CASE T!AnAnswer
  BY <1>2, AnswersTyped
<1> QED BY <1>1, <1>2, ButtonsTyped DEF T!Next

(* So the tab is typed.                                                    *)
LEMMA TabTyped == ASSUME TInv, Screens, Operations PROVE T!TypeOK
BY DEF TInv, Accounted, Seated, Screens, Operations, Kinds, T!TypeOK

(* It is at first.                                                         *)
LEMMA TabInitTyped == ASSUME T!Init PROVE Screens /\ Operations
<1>1. /\ T!None \in [kind: Kinds \union {"none"}, id: 0..MaxTasks, inside: BOOLEAN]
      /\ T!NoGame \in [of: 0..MaxSessions, phase: T!Phase]
      /\ 0 \in 0..MaxSessions
  BY ClientAssumption DEF T!None, T!NoGame, T!Phase
<1> QED BY <1>1 DEF T!Init, Screens, Operations

(* It stays so when nothing happens to it.                                 *)
LEMMA TabStutterTyped ==
  ASSUME Screens, Operations, UNCHANGED tabVars
  PROVE  Screens' /\ Operations'
BY DEF tabVars, Screens, Operations

-----------------------------------------------------------------------------
(* The list of workshops, in its order: by the time, and by the code.      *)
Rows   == [code: Code, at: Times]
StoreTyped == store \in [Code -> D!Workshop \union {D!NoWorkshop}]

Ahead(c, d)   == D!Newer(D!Place(c), D!Place(d))
AheadOf(c, S) == {d \in S : Ahead(d, c)}

(* Newer is a strict order of places, total where the codes differ.        *)
LEMMA NewerOrders ==
  \A x, y, z \in Rows :
    /\ ~D!Newer(x, x)
    /\ D!Newer(x, y) /\ D!Newer(y, z) => D!Newer(x, z)
    /\ x.code # y.code => D!Newer(x, y) \/ D!Newer(y, x)
<1>1. \A x \in Rows : x.at \in Nat /\ x.code \in Nat
  BY ListAssumption DEF Rows
<1> QED BY <1>1 DEF D!Newer

(* A listed workshop's place is of its code.                               *)
LEMMA Placed ==
  ASSUME StoreTyped, NEW c \in D!Listed
  PROVE  D!Place(c) \in Rows /\ D!Place(c).code = c
<1>1. c \in Code /\ store[c] \in D!Workshop
  BY DEF StoreTyped, D!Listed
<1>2. store[c].created \in Times /\ store[c].archived \in Times \union {0}
  BY <1>1 DEF D!Workshop
<1> QED BY <1>1, <1>2 DEF D!Place, Rows

(* So the listed workshops are in a strict total order.                    *)
LEMMA ListOrdered ==
  ASSUME StoreTyped, NEW a \in D!Listed, NEW b \in D!Listed, NEW c \in D!Listed
  PROVE  /\ ~Ahead(a, a)
         /\ Ahead(a, b) /\ Ahead(b, c) => Ahead(a, c)
         /\ a # b => Ahead(a, b) \/ Ahead(b, a)
<1>1. /\ D!Place(a) \in Rows /\ D!Place(b) \in Rows /\ D!Place(c) \in Rows
      /\ D!Place(a).code = a /\ D!Place(b).code = b
  BY Placed
<1> QED BY <1>1, NewerOrders DEF Ahead

(* The list counts as everybody does.                                      *)
LEMMA Counted == ASSUME NEW S PROVE D!Cardinality(S) = Cardinality(S)
BY DEF D!Cardinality, Cardinality

(* A rank is how many are ahead.                                           *)
LEMMA RankCounts == ASSUME NEW c, NEW S PROVE D!Rank(c, S) = Cardinality(AheadOf(c, S))
BY Counted DEF D!Rank, AheadOf, Ahead

(* A rank is a number below the size, and lower the further ahead.         *)
LEMMA Ranked ==
  ASSUME StoreTyped, NEW S \in SUBSET D!Listed, NEW c \in S
  PROVE  /\ IsFiniteSet(S) /\ Cardinality(S) \in Nat
         /\ D!Rank(c, S) \in Nat /\ D!Rank(c, S) < Cardinality(S)
<1>1. IsFiniteSet(S) /\ Cardinality(S) \in Nat
  <2>1. S \in SUBSET Code
    BY DEF D!Listed
  <2> QED BY <2>1, ListAssumption, FS_Subset, FS_CardinalityType
<1>2. AheadOf(c, S) \in SUBSET (S \ {c})
  BY ListOrdered DEF AheadOf
<1>3. IsFiniteSet(S \ {c}) /\ Cardinality(S \ {c}) = Cardinality(S) - 1
  BY <1>1, FS_RemoveElement
<1>4. /\ Cardinality(AheadOf(c, S)) <= Cardinality(S) - 1
      /\ Cardinality(AheadOf(c, S)) \in Nat
  BY <1>2, <1>3, FS_Subset, FS_CardinalityType
<1>5. D!Rank(c, S) = Cardinality(AheadOf(c, S))
  BY RankCounts
<1> QED BY <1>1, <1>4, <1>5

(* Who is ahead has the lower rank.                                        *)
LEMMA RankGrows ==
  ASSUME StoreTyped, NEW S \in SUBSET D!Listed, NEW c \in S, NEW d \in S, Ahead(c, d)
  PROVE  D!Rank(c, S) < D!Rank(d, S)
<1>1. IsFiniteSet(AheadOf(d, S))
  <2>1. IsFiniteSet(S) /\ AheadOf(d, S) \in SUBSET S
    BY Ranked DEF AheadOf
  <2> QED BY <2>1, FS_Subset
<1>2. c \in AheadOf(d, S) /\ AheadOf(c, S) \in SUBSET (AheadOf(d, S) \ {c})
  BY ListOrdered DEF AheadOf
<1>3. /\ IsFiniteSet(AheadOf(d, S) \ {c})
      /\ Cardinality(AheadOf(d, S) \ {c}) = Cardinality(AheadOf(d, S)) - 1
  BY <1>1, <1>2, FS_RemoveElement
<1>4. Cardinality(AheadOf(c, S)) <= Cardinality(AheadOf(d, S)) - 1
  BY <1>2, <1>3, FS_Subset
<1>5. /\ D!Rank(c, S) = Cardinality(AheadOf(c, S))
      /\ D!Rank(d, S) = Cardinality(AheadOf(d, S))
  BY RankCounts
<1>6. D!Rank(c, S) \in Nat /\ D!Rank(d, S) \in Nat
  BY Ranked
<1> QED BY <1>4, <1>5, <1>6

(* And who has the lower rank is ahead.                                    *)
LEMMA RankTells ==
  ASSUME StoreTyped, NEW S \in SUBSET D!Listed, NEW c \in S, NEW d \in S
  PROVE  /\ Ahead(c, d) <=> D!Rank(c, S) < D!Rank(d, S)
         /\ D!Rank(c, S) = D!Rank(d, S) => c = d
<1>1. D!Rank(c, S) \in Nat /\ D!Rank(d, S) \in Nat
  BY Ranked
<1>2. /\ Ahead(c, d) => D!Rank(c, S) < D!Rank(d, S)
      /\ Ahead(d, c) => D!Rank(d, S) < D!Rank(c, S)
  BY RankGrows
<1>3. c = d \/ Ahead(c, d) \/ Ahead(d, c)
  BY ListOrdered
<1> QED BY <1>1, <1>2, <1>3

(* Rows of ranks in an interval are no more than the interval holds.       *)
LEMMA FewRanks ==
  ASSUME StoreTyped, NEW S \in SUBSET D!Listed, NEW R \in SUBSET S, NEW a \in Int, NEW b \in Int,
         a <= b, \A c \in R : a <= D!Rank(c, S) /\ D!Rank(c, S) <= b
  PROVE  IsFiniteSet(R) /\ Cardinality(R) <= b - a + 1
<1> DEFINE f == [c \in R |-> D!Rank(c, S)]
<1>1. f \in [R -> a..b]
  BY Ranked
<1>2. \A c, d \in R : f[c] = f[d] => c = d
  BY RankTells
<1>3. f \in Injection(R, a..b)
  BY <1>1, <1>2 DEF Injection, IsInjective
<1>4. IsFiniteSet(a..b) /\ Cardinality(a..b) = b - a + 1
  BY FS_Interval
<1> HIDE DEF f
<1> QED BY <1>3, <1>4, FS_Injection

(* Every rank below the size is some row's.                                *)
LEMMA RankTaken ==
  ASSUME StoreTyped, NEW S \in SUBSET D!Listed, NEW i \in Nat, i < Cardinality(S)
  PROVE  \E c \in S : D!Rank(c, S) = i
<1>1. IsFiniteSet(S) /\ Cardinality(S) \in Nat
  <2>1. S \in SUBSET Code
    BY DEF D!Listed
  <2> QED BY <2>1, ListAssumption, FS_Subset, FS_CardinalityType
<1> DEFINE f == [c \in S |-> D!Rank(c, S)]
           n == Cardinality(S) - 1
<1>2. n \in Int /\ Cardinality(S) = n + 1 /\ i \in 0..n
  BY <1>1
<1>3. f \in [S -> 0..n]
  BY <1>1, Ranked
<1>4. \A c, d \in S : f[c] = f[d] => c = d
  BY RankTells
<1>5. f \in Injection(S, 0..n)
  BY <1>3, <1>4 DEF Injection, IsInjective
<1>6. IsFiniteSet(0..n) /\ Cardinality(0..n) = Cardinality(S)
  BY <1>1, <1>2, FS_Interval
<1>7. f \in Surjection(S, 0..n)
  <2> HIDE DEF f, n
  <2> QED BY <1>5, <1>6, FS_Injection
<1>8. \E c \in S : f[c] = i
  <2> HIDE DEF f, n
  <2> QED BY <1>2, <1>7 DEF Surjection
<1> QED BY <1>8

(* In a set that has, with each row, those ahead of it in a larger one,    *)
(* ranks are as in the larger one.                                         *)
LEMMA RankInFront ==
  ASSUME NEW H, NEW F \in SUBSET H, \A c \in F, d \in H : Ahead(d, c) => d \in F, NEW c \in F
  PROVE  D!Rank(c, F) = D!Rank(c, H)
<1>1. AheadOf(c, F) = AheadOf(c, H)
  BY DEF AheadOf
<1> QED BY <1>1, RankCounts

(* In one that lacks only rows ahead of all its own, they are lower by as  *)
(* many as it lacks.                                                       *)
LEMMA RankAtBack ==
  ASSUME StoreTyped, NEW H \in SUBSET D!Listed, NEW F \in SUBSET H,
         \A c \in F, d \in H \ F : Ahead(d, c), NEW c \in F
  PROVE  /\ D!Rank(c, F) \in Nat /\ Cardinality(F) \in Nat /\ Cardinality(H) \in Nat
         /\ D!Rank(c, H) = D!Rank(c, F) + Cardinality(H) - Cardinality(F)
<1> DEFINE L == H \ F
           A == AheadOf(c, F)
<1>1. IsFiniteSet(H) /\ IsFiniteSet(F) /\ Cardinality(H) \in Nat /\ Cardinality(F) \in Nat
  BY Ranked
<1>2. L \in SUBSET H /\ A \in SUBSET F
  BY DEF AheadOf
<1>3. IsFiniteSet(L) /\ IsFiniteSet(A)
  BY <1>1, <1>2, FS_Subset
<1>4. Cardinality(L) \in Nat /\ Cardinality(A) \in Nat
  BY <1>3, FS_CardinalityType
<1>5. AheadOf(c, H) = A \union L /\ A \intersect L = {}
  BY DEF AheadOf
<1>6. H = F \union L /\ F \intersect L = {}
  OBVIOUS
<1> HIDE DEF L, A
<1>7. Cardinality({}) = 0
  BY FS_EmptySet
<1>8. Cardinality(A \union L) = Cardinality(A) + Cardinality(L)
  <2>1. Cardinality(A \union L) = Cardinality(A) + Cardinality(L) - Cardinality(A \intersect L)
    BY <1>3, FS_Union
  <2>2. Cardinality(A \intersect L) = 0
    BY <1>5, <1>7, Zenon
  <2> QED BY <1>4, <2>1, <2>2
<1>9. Cardinality(F \union L) = Cardinality(F) + Cardinality(L)
  <2>1. Cardinality(F \union L) = Cardinality(F) + Cardinality(L) - Cardinality(F \intersect L)
    BY <1>1, <1>3, FS_Union
  <2>2. Cardinality(F \intersect L) = 0
    BY <1>6, <1>7, Zenon
  <2> QED BY <1>1, <1>4, <2>1, <2>2
<1>10. D!Rank(c, H) = Cardinality(A) + Cardinality(L) /\ D!Rank(c, F) = Cardinality(A)
  BY <1>5, <1>8, RankCounts DEF A
<1> QED BY <1>1, <1>4, <1>6, <1>9, <1>10

(* So the first rows of a set of the first kind are those of the larger    *)
(* one's that are in it.                                                   *)
LEMMA NewestInFront ==
  ASSUME NEW H, NEW F \in SUBSET H, \A c \in F, d \in H : Ahead(d, c) => d \in F, NEW n
  PROVE  D!NewestOf(F, n) = F \intersect D!NewestOf(H, n)
<1>1. \A c \in F : D!Rank(c, F) = D!Rank(c, H)
  BY RankInFront
<1> QED BY <1>1 DEF D!NewestOf

(* And the last rows of one that lacks only what is ahead of it.           *)
LEMMA OldestAtBack ==
  ASSUME StoreTyped, NEW H \in SUBSET D!Listed, NEW F \in SUBSET H,
         \A c \in F, d \in H \ F : Ahead(d, c), NEW n \in Nat
  PROVE  D!OldestOf(F, n) = F \intersect D!OldestOf(H, n)
<1>1. ASSUME NEW c \in F
      PROVE  D!Rank(c, F) >= Cardinality(F) - n <=> D!Rank(c, H) >= Cardinality(H) - n
  <2>1. /\ D!Rank(c, F) \in Nat /\ Cardinality(F) \in Nat /\ Cardinality(H) \in Nat
        /\ D!Rank(c, H) = D!Rank(c, F) + Cardinality(H) - Cardinality(F)
    BY RankAtBack
  <2> QED BY <2>1
<1> QED BY <1>1, Counted DEF D!OldestOf

-----------------------------------------------------------------------------
(* The pages of the two stores.  Postgres fetches one row more than a page *)
(* holds.                                                                  *)
More(p, S) == IF p.kind = "before" THEN D!OldestOf(S, PageSize + 1)
              ELSE D!NewestOf(S, PageSize + 1)

(* Truncating what was fetched, with or without a sieve, leaves rows of    *)
(* the page of all.                                                        *)
LEMMA SievedPage ==
  ASSUME StoreTyped, NEW p, NEW S \in SUBSET D!Listed, NEW H \in SUBSET S
  PROVE  D!Truncated(p, H \intersect More(p, S))
           = (H \intersect More(p, S)) \intersect D!Truncated(p, H)
<1> DEFINE M == More(p, S)
           F == H \intersect M
<1>1. M \in SUBSET S /\ F \in SUBSET H /\ H \in SUBSET D!Listed
  BY DEF More, D!OldestOf, D!NewestOf
<1>2. \A c \in S : D!Rank(c, S) \in Nat
  BY Ranked
<1>3. \A c, d \in S : Ahead(d, c) <=> D!Rank(d, S) < D!Rank(c, S)
  BY RankTells
<1>4. Cardinality(S) \in Nat
  <2>1. S \in SUBSET Code
    BY DEF D!Listed
  <2> QED BY <2>1, ListAssumption, FS_Subset, FS_CardinalityType
<1>5. PageSize \in Nat
  BY ListAssumption
<1>6. CASE p.kind = "before"
  <2>1. \A c \in F, d \in H \ F : Ahead(d, c)
    <3>1. M = {c \in S : D!Rank(c, S) >= Cardinality(S) - (PageSize + 1)}
      BY <1>6, Counted DEF More, D!OldestOf
    <3> QED BY <3>1, <1>2, <1>3, <1>4, <1>5
  <2> HIDE DEF M, F
  <2>2. D!OldestOf(F, PageSize) = F \intersect D!OldestOf(H, PageSize)
    BY <1>1, <1>5, <2>1, OldestAtBack
  <2> QED BY <1>6, <2>2 DEF D!Truncated, F, M
<1>7. CASE p.kind # "before"
  <2>1. \A c \in F, d \in H : Ahead(d, c) => d \in F
    <3>1. M = {c \in S : D!Rank(c, S) < PageSize + 1}
      BY <1>7 DEF More, D!NewestOf
    <3> QED BY <3>1, <1>2, <1>3, <1>5
  <2> HIDE DEF M, F
  <2>2. D!NewestOf(F, PageSize) = F \intersect D!NewestOf(H, PageSize)
    BY <1>1, <2>1, NewestInFront
  <2> QED BY <1>7, <2>2 DEF D!Truncated, F, M
<1> QED BY <1>6, <1>7

(* The row more tells whether there are others.                            *)
LEMMA OneMoreTells ==
  ASSUME StoreTyped, NEW p, NEW S \in SUBSET D!Listed
  PROVE  /\ D!Truncated(p, More(p, S)) = D!Truncated(p, S)
         /\ D!Truncated(p, S) = More(p, S) <=> D!Truncated(p, S) = S
<1>1. IsFiniteSet(S) /\ Cardinality(S) \in Nat
  <2>1. S \in SUBSET Code
    BY DEF D!Listed
  <2> QED BY <2>1, ListAssumption, FS_Subset, FS_CardinalityType
<1>2. PageSize \in Nat
  BY ListAssumption
<1>3. \A c \in S : D!Rank(c, S) \in Nat /\ D!Rank(c, S) < Cardinality(S)
  BY Ranked
<1>4. More(p, S) \in SUBSET S /\ D!Truncated(p, S) \in SUBSET More(p, S)
  BY <1>1, <1>2, <1>3, Counted DEF More, D!Truncated, D!OldestOf, D!NewestOf
<1>5. D!Truncated(p, More(p, S)) = D!Truncated(p, S)
  <2>1. S \intersect More(p, S) = More(p, S)
    BY <1>4
  <2> QED BY <1>4, <2>1, SievedPage
<1>6. CASE Cardinality(S) <= PageSize
  <2>1. D!NewestOf(S, PageSize) = S /\ D!OldestOf(S, PageSize) = S
    BY <1>1, <1>2, <1>3, <1>6, Counted DEF D!OldestOf, D!NewestOf
  <2>2. D!Truncated(p, S) = S
    BY <2>1 DEF D!Truncated
  <2> QED BY <1>4, <1>5, <2>2
<1>7. CASE Cardinality(S) > PageSize /\ p.kind = "before"
  <2>1. PICK c \in S : D!Rank(c, S) = Cardinality(S) - (PageSize + 1)
    BY <1>1, <1>2, <1>7, RankTaken
  <2>2. c \in More(p, S) /\ c \notin D!Truncated(p, S)
    BY <1>1, <1>2, <1>7, <2>1, Counted DEF More, D!Truncated, D!OldestOf
  <2> QED BY <1>5, <2>1, <2>2
<1>8. CASE Cardinality(S) > PageSize /\ p.kind # "before"
  <2>1. PICK c \in S : D!Rank(c, S) = PageSize
    BY <1>1, <1>2, <1>8, RankTaken
  <2>2. c \in More(p, S) /\ c \notin D!Truncated(p, S)
    BY <1>2, <1>8, <2>1 DEF More, D!Truncated, D!NewestOf
  <2> QED BY <1>5, <2>1, <2>2
<1> QED BY <1>1, <1>2, <1>6, <1>7, <1>8

(* What is selected is listed.                                             *)
LEMMA SelectedListed ==
  ASSUME NEW p, p.kind \in {"first", "after", "before"}
  PROVE  D!Selected(p) \in SUBSET D!Visible /\ D!Visible \in SUBSET D!Listed
BY DEF D!Selected, D!Visible

(* A page of Postgres has no row that the store in memory does not show,   *)
(* and is the same while all hosts have names.                             *)
LEMMA StoresPageAlike ==
  ASSUME StoreTyped, NEW p, p.kind \in {"first", "after", "before"}
  PROVE  /\ D!Answer(p).rows \subseteq D!MemoryAnswer(p).rows
         /\ D!HostNamed(D!Visible) = D!Visible =>
              /\ D!Answer(p) = D!MemoryAnswer(p)
              /\ D!MemoryAnswer(p) = D!PageOf(p, D!Selected(p))
<1> DEFINE S == D!Selected(p)
           H == D!HostNamed(S)
           F == D!Fetched(p)
<1>1. S \in SUBSET D!Listed /\ S \in SUBSET D!Visible
  BY SelectedListed
<1>2. H \in SUBSET S
  BY DEF D!HostNamed
<1>3. F = H \intersect More(p, S) /\ More(p, S) \in SUBSET S
  BY DEF D!Fetched, D!HostNamed, More, D!OldestOf, D!NewestOf
<1>4. /\ D!Answer(p) = D!PageOf(p, F) /\ D!MemoryAnswer(p) = D!PageOf(p, H)
      /\ \A found : D!PageOf(p, found).rows = D!Truncated(p, found)
  BY DEF D!Answer, D!MemoryAnswer, D!PageOf
<1>5. ASSUME D!HostNamed(D!Visible) = D!Visible PROVE H = S
  BY <1>1, <1>5 DEF D!HostNamed
<1> HIDE DEF S, H, F
<1>6. D!Truncated(p, F) = F \intersect D!Truncated(p, H)
  BY <1>1, <1>2, <1>3, SievedPage
<1>7. D!Answer(p).rows \subseteq D!MemoryAnswer(p).rows
  BY <1>4, <1>6
<1>8. ASSUME H = S PROVE D!PageOf(p, F) = D!PageOf(p, S)
  <2>1. F = More(p, S)
    BY <1>3, <1>8
  <2>2. /\ D!Truncated(p, F) = D!Truncated(p, S)
        /\ D!Truncated(p, F) # F <=> D!Truncated(p, S) # S
    BY <1>1, <2>1, OneMoreTells
  <2> QED BY <2>2 DEF D!PageOf
<1> QED BY <1>4, <1>5, <1>7, <1>8 DEF S

(* A row lies beyond the cursor that leads on from the answer a to p.      *)
Cursors == Rows \union {D!NoCursor}
Beyond(c, p, a) ==
  IF p.kind = "before" THEN a.prev # D!NoCursor /\ D!Newer(D!Place(c), a.prev)
                       ELSE a.next # D!NoCursor /\ D!Newer(a.next, D!Place(c))

(* The cursors of a page are the places of rows on it.                     *)
LEMMA EndsOfPage ==
  ASSUME StoreTyped, NEW R \in SUBSET D!Listed
  PROVE  /\ D!FirstOf(R) \in Cursors /\ D!LastOf(R) \in Cursors
         /\ R # {} => /\ \E c \in R : D!FirstOf(R) = D!Place(c)
                      /\ \E c \in R : D!LastOf(R) = D!Place(c)
<1>1. CASE R = {}
  BY <1>1 DEF D!FirstOf, D!LastOf, Cursors
<1>2. CASE R # {}
  <2>1. IsFiniteSet(R) /\ Cardinality(R) \in Nat /\ Cardinality(R) # 0
    BY <1>2, Ranked, FS_EmptySet
  <2>2. /\ \E c \in R : D!Rank(c, R) = 0
        /\ \E c \in R : D!Rank(c, R) = Cardinality(R) - 1
    BY <2>1, RankTaken
  <2>3. PICK c \in R : D!FirstOf(R) = D!Place(c)
    BY <1>2, <2>2 DEF D!FirstOf
  <2>4. PICK d \in R : D!LastOf(R) = D!Place(d)
    BY <1>2, <2>2, Counted DEF D!LastOf
  <2>5. D!Place(c) \in Rows /\ D!Place(d) \in Rows
    BY Placed
  <2> QED BY <2>3, <2>4, <2>5 DEF Cursors
<1> QED BY <1>1, <1>2

(* A page holds no more than a page's rows, and some if there are any.     *)
LEMMA RowsOfPage ==
  ASSUME StoreTyped, NEW p, NEW S \in SUBSET D!Listed
  PROVE  /\ D!Truncated(p, S) \in SUBSET S /\ Cardinality(D!Truncated(p, S)) <= PageSize
         /\ S # {} => D!Truncated(p, S) # {}
<1>1. IsFiniteSet(S) /\ Cardinality(S) \in Nat
  <2>1. S \in SUBSET Code
    BY DEF D!Listed
  <2> QED BY <2>1, ListAssumption, FS_Subset, FS_CardinalityType
<1>2. PageSize \in Nat /\ PageSize >= 1
  BY ListAssumption
<1>3. \A c \in S : D!Rank(c, S) \in Nat /\ D!Rank(c, S) < Cardinality(S)
  BY Ranked
<1> DEFINE R == D!Truncated(p, S)
           n == Cardinality(S)
<1>4. CASE p.kind = "before"
  <2>1. R = {c \in S : D!Rank(c, S) >= n - PageSize}
    BY <1>4, Counted DEF D!Truncated, D!OldestOf
  <2>2. R \in SUBSET S /\ \A c \in R : n - PageSize <= D!Rank(c, S) /\ D!Rank(c, S) <= n - 1
    BY <1>1, <1>2, <1>3, <2>1
  <2>3. n - PageSize \in Int /\ n - 1 \in Int /\ n - PageSize <= n - 1
    BY <1>1, <1>2
  <2>4. S # {} => \E c \in S : D!Rank(c, S) = n - 1
    <3>1. S # {} => n # 0
      BY <1>1, FS_EmptySet
    <3> QED BY <1>1, <3>1, RankTaken
  <2>5. S # {} => R # {}
    BY <1>1, <1>2, <2>1, <2>4
  <2> HIDE DEF R, n
  <2>6. Cardinality(R) <= (n - 1) - (n - PageSize) + 1
    BY <2>2, <2>3, FewRanks
  <2>7. n \in Nat
    BY <1>1 DEF n
  <2>8. (n - 1) - (n - PageSize) + 1 = PageSize
    BY <1>2, <2>7
  <2> QED BY <2>2, <2>5, <2>6, <2>8 DEF R
<1>5. CASE p.kind # "before"
  <2>1. R = {c \in S : D!Rank(c, S) < PageSize}
    BY <1>5 DEF D!Truncated, D!NewestOf
  <2>2. R \in SUBSET S /\ \A c \in R : 0 <= D!Rank(c, S) /\ D!Rank(c, S) <= PageSize - 1
    BY <1>2, <1>3, <2>1
  <2>3. S # {} => \E c \in S : D!Rank(c, S) = 0
    <3>1. S # {} => n # 0
      BY <1>1, FS_EmptySet
    <3> QED BY <1>1, <3>1, RankTaken
  <2>4. S # {} => R # {}
    BY <1>2, <2>1, <2>3
  <2>5. 0 \in Int /\ PageSize - 1 \in Int /\ 0 <= PageSize - 1
    BY <1>2
  <2> HIDE DEF R, n
  <2>6. Cardinality(R) <= (PageSize - 1) - 0 + 1
    BY <2>2, <2>5, FewRanks
  <2> QED BY <1>2, <2>2, <2>4, <2>6 DEF R
<1> QED BY <1>4, <1>5

(* The types of an answer.                                                 *)
LEMMA PageTyped ==
  ASSUME StoreTyped, NEW p, NEW S \in SUBSET D!Listed
  PROVE  /\ D!PageOf(p, S).rows \in SUBSET S
         /\ Cardinality(D!PageOf(p, S).rows) <= PageSize
         /\ D!PageOf(p, S).next \in Cursors /\ D!PageOf(p, S).prev \in Cursors
         /\ p.kind = "first" => D!PageOf(p, S).prev = D!NoCursor
<1> DEFINE R == D!Truncated(p, S)
<1>1. R \in SUBSET S /\ Cardinality(R) <= PageSize
  BY RowsOfPage
<1>2. D!FirstOf(R) \in Cursors /\ D!LastOf(R) \in Cursors /\ D!NoCursor \in Cursors
  BY <1>1, EndsOfPage DEF Cursors
<1>3. D!PageOf(p, S) =
        [rows |-> R,
         next |-> IF p.kind = "before" \/ R # S THEN D!LastOf(R) ELSE D!NoCursor,
         prev |-> IF p.kind = "after" \/ (p.kind = "before" /\ R # S) THEN D!FirstOf(R)
                  ELSE D!NoCursor]
  BY DEF D!PageOf
<1> HIDE DEF R
<1> QED BY <1>1, <1>2, <1>3

(* A row the page leaves out lies beyond the cursor that leads on.         *)
LEMMA PageLeadsOn ==
  ASSUME StoreTyped, NEW p, NEW S \in SUBSET D!Listed, NEW c \in S \ D!PageOf(p, S).rows
  PROVE  Beyond(c, p, D!PageOf(p, S))
<1> DEFINE R == D!Truncated(p, S)
<1>1. R \in SUBSET S /\ R # {} /\ R # S /\ c \notin R
  BY RowsOfPage DEF D!PageOf
<1>2. /\ p.kind = "before" => D!PageOf(p, S).prev = D!FirstOf(R)
      /\ p.kind # "before" => D!PageOf(p, S).next = D!LastOf(R)
  BY <1>1 DEF D!PageOf
<1>3. ASSUME NEW d \in R
      PROVE  /\ p.kind = "before" => Ahead(c, d)
             /\ p.kind # "before" => Ahead(d, c)
             /\ D!Place(d) # D!NoCursor
  <2>1. /\ Ahead(c, d) <=> D!Rank(c, S) < D!Rank(d, S)
        /\ Ahead(d, c) <=> D!Rank(d, S) < D!Rank(c, S)
    BY <1>1, RankTells
  <2>2. IsFiniteSet(S) /\ Cardinality(S) \in Nat /\ D!Rank(c, S) \in Nat /\ D!Rank(d, S) \in Nat
    BY <1>1, Ranked
  <2>3. PageSize \in Nat
    BY ListAssumption
  <2>4. p.kind = "before" => Ahead(c, d)
    BY <1>1, <2>1, <2>2, <2>3, Counted DEF D!Truncated, D!OldestOf
  <2>5. p.kind # "before" => Ahead(d, c)
    BY <1>1, <2>1, <2>2, <2>3 DEF D!Truncated, D!NewestOf
  <2>6. D!Place(d) \in Rows
    BY <1>1, Placed
  <2>7. D!NoCursor \notin Rows
    BY ListAssumption DEF D!NoCursor, Rows
  <2> QED BY <2>4, <2>5, <2>6, <2>7
<1>4. /\ \E d \in R : D!FirstOf(R) = D!Place(d)
      /\ \E d \in R : D!LastOf(R) = D!Place(d)
  BY <1>1, EndsOfPage
<1> HIDE DEF R
<1> QED BY <1>2, <1>3, <1>4 DEF Beyond, Ahead

-----------------------------------------------------------------------------
(* The walk.  What is still to be shown lies where the browser is going:   *)
(* on the page it asks for, and beyond the cursor that leads on.           *)
Askable(p) == p = D!First \/ p \in [kind: {"after", "before"}, cursor: Rows]
Left(w) == w.due \ w.shown

PagesTyped ==
  /\ StoreTyped
  /\ page.rows \in SUBSET Code /\ Cardinality(page.rows) <= PageSize
  /\ page.next \in Cursors /\ page.prev \in Cursors
  /\ Askable(paging)
Walking(w) ==
  /\ w = [way |-> w.way, due |-> w.due, shown |-> w.shown, over |-> w.over, whole |-> w.whole]
  /\ w.way \in {"on", "back"} /\ w.due \in SUBSET Code
  /\ w.whole => D!HostNamed(D!Visible) = D!Visible
(* A walk may ask for p.                                                   *)
Fits(w, p) ==
  /\ w.way = "on" => p.kind # "before"
  /\ w.way = "back" => p.kind # "after"
  /\ w.whole => /\ Left(w) \in SUBSET D!Selected(p)
                /\ w.way = "back" /\ p.kind = "first" => Left(w) = {}

WalkOn ==
  /\ walk.over <=> page.next = D!NoCursor
  /\ walk.whole => \A c \in Left(walk) : /\ page.next # D!NoCursor
                                         /\ D!Newer(page.next, D!Place(c))
WalkBack ==
  /\ walk.over <=> page.prev = D!NoCursor
  /\ walk.over <=> paging.kind = "first"
  /\ walk.whole => \A c \in Left(walk) : /\ page.prev # D!NoCursor
                                         /\ D!Newer(D!Place(c), page.prev)

LInv == /\ PagesTyped /\ Walking(walk) /\ Fits(walk, paging)
        /\ walk.way = "on" => WalkOn
        /\ walk.way = "back" => WalkBack

(* What the browser asks for is a page.                                    *)
LEMMA Asks ==
  ASSUME NEW p, Askable(p)
  PROVE  /\ p.kind \in {"first", "after", "before"} /\ (p.kind = "first" => p = D!First)
         /\ p.kind # "first" => p.cursor \in Rows
BY DEF Askable, D!First

(* The answer to it: a row it leaves out lies beyond, while all have names. *)
LEMMA Answers ==
  ASSUME StoreTyped, NEW p, Askable(p)
  PROVE  /\ D!Answer(p).rows \in SUBSET Code /\ Cardinality(D!Answer(p).rows) <= PageSize
         /\ D!Answer(p).next \in Cursors /\ D!Answer(p).prev \in Cursors
         /\ p.kind = "first" => D!Answer(p).prev = D!NoCursor
         /\ D!HostNamed(D!Visible) = D!Visible =>
              \A c \in D!Selected(p) \ D!Answer(p).rows : Beyond(c, p, D!Answer(p))
<1>1. p.kind \in {"first", "after", "before"}
  BY Asks
<1>2. /\ D!Selected(p) \in SUBSET D!Listed /\ D!Fetched(p) \in SUBSET D!Listed
      /\ D!Listed \in SUBSET Code
  BY <1>1, SelectedListed DEF D!Fetched, D!HostNamed, D!OldestOf, D!NewestOf, D!Listed
<1>3. D!Answer(p) = D!PageOf(p, D!Fetched(p))
  BY DEF D!Answer
<1>4. D!HostNamed(D!Visible) = D!Visible => D!Answer(p) = D!PageOf(p, D!Selected(p))
  BY <1>1, StoresPageAlike
<1>5. /\ D!Answer(p).rows \in SUBSET D!Fetched(p) /\ Cardinality(D!Answer(p).rows) <= PageSize
      /\ D!Answer(p).next \in Cursors /\ D!Answer(p).prev \in Cursors
      /\ p.kind = "first" => D!Answer(p).prev = D!NoCursor
  BY <1>2, <1>3, PageTyped
<1>6. ASSUME D!HostNamed(D!Visible) = D!Visible, NEW c \in D!Selected(p) \ D!Answer(p).rows
      PROVE  Beyond(c, p, D!Answer(p))
  BY <1>2, <1>4, <1>6, PageLeadsOn
<1> QED BY <1>2, <1>5, <1>6

(* The list is the same while the store is.                                *)
LEMMA SameList ==
  ASSUME UNCHANGED store
  PROVE  /\ StoreTyped => StoreTyped'
         /\ D!Visible' = D!Visible /\ D!HostNamed(D!Visible)' = D!HostNamed(D!Visible)
         /\ \A c : D!Place(c)' = D!Place(c)
         /\ \A p : D!Selected(p)' = D!Selected(p)
BY DEF StoreTyped, D!Visible, D!Listed, D!HostNamed, D!Place, D!Selected

(* The browser shows an answer.                                            *)
LEMMA ShowStep ==
  ASSUME StoreTyped, NEW p, NEW w, Askable(p), Walking(w), Fits(w, p), D!Show(p, w)
  PROVE  LInv'
<1> DEFINE a == D!Answer(p)
<1>1. /\ a.rows \in SUBSET Code /\ Cardinality(a.rows) <= PageSize
      /\ a.next \in Cursors /\ a.prev \in Cursors
      /\ p.kind = "first" => a.prev = D!NoCursor
  BY Answers
<1>2. w.whole => \A c \in Left(w) \ a.rows : Beyond(c, p, a)
  BY Answers DEF Fits, Walking
<1>3. /\ p.kind \in {"first", "after", "before"} /\ (p.kind = "first" => p = D!First)
      /\ p.kind # "first" => p.cursor \in Rows
  BY Asks
<1>4. /\ paging' = D!Normalized(p, a)
      /\ page' = IF paging' = p THEN a ELSE D!Answer(D!First)
      /\ walk' = [way |-> w.way, due |-> w.due, shown |-> w.shown \union a.rows,
                  over |-> (IF w.way = "back" THEN a.prev ELSE a.next) = D!NoCursor,
                  whole |-> w.whole]
      /\ UNCHANGED store
  BY DEF D!Show, Walking
<1> HIDE DEF a
<1>5. /\ walk'.way = w.way /\ walk'.due = w.due /\ walk'.shown = w.shown \union a.rows
      /\ walk'.whole = w.whole /\ Left(walk)' = Left(w) \ a.rows
      /\ w.way = "back" => (walk'.over <=> a.prev = D!NoCursor)
      /\ w.way # "back" => (walk'.over <=> a.next = D!NoCursor)
  BY <1>4 DEF Left
<1>6. Walking(walk)'
  <2>1. walk' = [way |-> walk'.way, due |-> walk'.due, shown |-> walk'.shown,
                 over |-> walk'.over, whole |-> walk'.whole]
    BY <1>4
  <2> QED BY <1>4, <1>5, <2>1, SameList DEF Walking
<1>7. CASE p.kind = "before" /\ a.prev = D!NoCursor
  <2>1. paging' = D!First /\ page' = D!Answer(D!First) /\ paging'.kind = "first"
    BY <1>4, <1>7 DEF D!Normalized, D!First
  <2>2. Askable(D!First) /\ D!First.kind = "first"
    BY DEF Askable, D!First
  <2>3. PagesTyped'
    BY <1>4, <2>1, <2>2, SameList, Answers DEF PagesTyped, Cursors
  <2>4. w.way = "back"
    BY <1>7 DEF Fits, Walking
  <2>5. w.whole => Left(walk)' = {}
    BY <1>2, <1>5, <1>7 DEF Beyond
  <2>6. page'.prev = D!NoCursor
    BY <2>1, <2>2, Answers
  <2>7. WalkBack'
    BY <1>5, <1>7, <2>1, <2>4, <2>5, <2>6 DEF WalkBack
  <2>8. Fits(walk, paging)'
    BY <1>5, <2>1, <2>4, <2>5 DEF Fits
  <2> QED BY <1>5, <1>6, <2>3, <2>4, <2>7, <2>8 DEF LInv
<1>8. CASE ~(p.kind = "before" /\ a.prev = D!NoCursor)
  <2>1. paging' = p /\ page' = a
    BY <1>4, <1>8 DEF D!Normalized
  <2>2. PagesTyped'
    BY <1>1, <1>3, <1>4, <2>1, SameList DEF PagesTyped, Cursors, Askable
  <2>3. /\ D!Selected(paging)' = D!Selected(p)
        /\ \A c : D!Place(c)' = D!Place(c)
    BY <1>4, <2>1, SameList
  <2>4. Fits(walk, paging)'
    BY <1>5, <2>1, <2>3 DEF Fits
  <2>5. ASSUME w.way = "on" PROVE WalkOn'
    <3>1. p.kind # "before"
      BY <2>5 DEF Fits
    <3> QED BY <1>2, <1>5, <2>1, <2>3, <2>5, <3>1 DEF WalkOn, Beyond
  <2>6. ASSUME w.way = "back" PROVE WalkBack'
    <3>1. p.kind \in {"first", "before"}
      BY <1>3, <2>6 DEF Fits
    <3>2. CASE p.kind = "first"
      <4>1. a.prev = D!NoCursor
        BY <1>1, <3>2
      <4>2. w.whole => Left(walk)' = {}
        BY <1>5, <2>6, <3>2 DEF Fits
      <4> QED BY <1>5, <2>1, <2>6, <3>2, <4>1, <4>2 DEF WalkBack
    <3>3. CASE p.kind = "before"
      BY <1>2, <1>5, <1>8, <2>1, <2>3, <2>6, <3>3 DEF WalkBack, Beyond
    <3> QED BY <3>1, <3>2, <3>3
  <2> QED BY <1>5, <1>6, <2>2, <2>4, <2>5, <2>6 DEF LInv, Walking
<1> QED BY <1>7, <1>8

(* A walk that begins asks for a page that selects all that is due.        *)
LEMMA Beginning ==
  ASSUME NEW way \in {"on", "back"}, NEW R \in SUBSET D!Visible
  PROVE  /\ Walking(D!Begin(way, R)) /\ Left(D!Begin(way, R)) \in SUBSET R
         /\ D!Begin(way, R).way = way
<1>1. PICK w : w = D!Begin(way, R)
  OBVIOUS
<1>2. w = [way |-> way, due |-> D!HostNamed(R), shown |-> {}, over |-> FALSE,
           whole |-> D!HostNamed(D!Visible) = D!Visible]
  BY <1>1 DEF D!Begin
<1>3. D!HostNamed(R) \in SUBSET R /\ R \in SUBSET Code
  BY DEF D!HostNamed, D!Visible, D!Listed
<1>4. /\ w.way = way /\ w.due = D!HostNamed(R) /\ w.shown = {}
      /\ w.whole => D!HostNamed(D!Visible) = D!Visible
      /\ w = [way |-> w.way, due |-> w.due, shown |-> w.shown, over |-> w.over,
              whole |-> w.whole]
  BY <1>2
<1>5. Walking(w) /\ Left(w) \in SUBSET R
  BY <1>3, <1>4 DEF Walking, Left
<1> QED BY <1>1, <1>4, <1>5

(* The first page is asked for: a walk begins.                             *)
LEMMA GoFirstStep == ASSUME LInv, D!GoFirst PROVE LInv'
<1> DEFINE w == D!Begin("on", D!Visible)
<1>1. D!Show(D!First, w) /\ StoreTyped
  BY DEF D!GoFirst, LInv, PagesTyped
<1>2. Askable(D!First) /\ D!First.kind = "first" /\ D!Selected(D!First) = D!Visible
  BY DEF Askable, D!First, D!Selected
<1>3. Walking(w) /\ Left(w) \in SUBSET D!Visible /\ w.way = "on"
  BY Beginning
<1> HIDE DEF w
<1>4. Fits(w, D!First)
  BY <1>2, <1>3 DEF Fits
<1> QED BY <1>1, <1>2, <1>3, <1>4, ShowStep

(* The page is asked for again.                                            *)
LEMMA PollStep == ASSUME LInv, D!Poll PROVE LInv'
BY ShowStep DEF D!Poll, LInv, PagesTyped

(* The next page: it selects what lies beyond the cursor, which is all    *)
(* that a walk in this direction has left.                                 *)
LEMMA GoNextStep == ASSUME LInv, D!GoNext PROVE LInv'
<1>1. PICK p : p = [kind |-> "after", cursor |-> page.next]
  OBVIOUS
<1>2. PICK w : w = IF walk.way = "on" THEN walk ELSE D!Begin("on", D!Selected(p))
  OBVIOUS
<1>3. D!Show(p, w) /\ page.next # D!NoCursor /\ StoreTyped
  BY <1>1, <1>2 DEF D!GoNext, LInv, PagesTyped
<1>4. page.next \in Rows
  BY <1>3 DEF LInv, PagesTyped, Cursors
<1>5. Askable(p) /\ p.kind = "after"
  BY <1>1, <1>4 DEF Askable
<1>6. D!Selected(p) = {c \in D!Visible : D!Newer(page.next, D!Place(c))}
  BY <1>1 DEF D!Selected
<1>7. CASE walk.way = "on"
  <2>1. w = walk /\ Walking(w)
    BY <1>2, <1>7 DEF LInv
  <2>2. Left(w) \in SUBSET D!Visible \/ ~w.whole
    <3>1. paging.kind \in {"first", "after", "before"}
      BY Asks DEF LInv, PagesTyped
    <3> QED BY <2>1, <3>1, SelectedListed DEF LInv, Fits
  <2>3. Fits(w, p)
    BY <1>5, <1>6, <1>7, <2>1, <2>2 DEF LInv, Fits, WalkOn
  <2> QED BY <1>3, <1>5, <2>1, <2>3, ShowStep
<1>8. CASE walk.way # "on"
  <2>1. Walking(w) /\ Left(w) \in SUBSET D!Selected(p) /\ w.way = "on"
    BY <1>2, <1>6, <1>8, Beginning
  <2>2. Fits(w, p)
    BY <1>5, <2>1 DEF Fits
  <2> QED BY <1>3, <1>5, <2>1, <2>2, ShowStep
<1> QED BY <1>7, <1>8

(* The previous page, likewise.                                            *)
LEMMA GoPrevStep == ASSUME LInv, D!GoPrev PROVE LInv'
<1>1. PICK p : p = [kind |-> "before", cursor |-> page.prev]
  OBVIOUS
<1>2. PICK w : w = IF walk.way = "back" THEN walk ELSE D!Begin("back", D!Selected(p))
  OBVIOUS
<1>3. D!Show(p, w) /\ page.prev # D!NoCursor /\ StoreTyped
  BY <1>1, <1>2 DEF D!GoPrev, LInv, PagesTyped
<1>4. page.prev \in Rows
  BY <1>3 DEF LInv, PagesTyped, Cursors
<1>5. Askable(p) /\ p.kind = "before"
  BY <1>1, <1>4 DEF Askable
<1>6. D!Selected(p) = {c \in D!Visible : D!Newer(D!Place(c), page.prev)}
  BY <1>1 DEF D!Selected
<1>7. CASE walk.way = "back"
  <2>1. w = walk /\ Walking(w)
    BY <1>2, <1>7 DEF LInv
  <2>2. Left(w) \in SUBSET D!Visible \/ ~w.whole
    <3>1. paging.kind \in {"first", "after", "before"}
      BY Asks DEF LInv, PagesTyped
    <3> QED BY <2>1, <3>1, SelectedListed DEF LInv, Fits
  <2>3. Fits(w, p)
    BY <1>5, <1>6, <1>7, <2>1, <2>2 DEF LInv, Fits, WalkBack
  <2> QED BY <1>3, <1>5, <2>1, <2>3, ShowStep
<1>8. CASE walk.way # "back"
  <2>1. Walking(w) /\ Left(w) \in SUBSET D!Selected(p) /\ w.way = "back"
    BY <1>2, <1>6, <1>8, Beginning
  <2>2. Fits(w, p)
    BY <1>5, <2>1 DEF Fits
  <2> QED BY <1>3, <1>5, <2>1, <2>2, ShowStep
<1> QED BY <1>7, <1>8

(* A row that is still due has kept its place.                             *)
LEMMA Unmoved ==
  ASSUME StoreTyped, NEW c \in Code, NEW v, D!Change(c, v), walk = [way |-> walk.way,
         due |-> walk.due, shown |-> walk.shown, over |-> walk.over, whole |-> walk.whole],
         NEW d \in walk'.due, d \in D!Visible
  PROVE  d \in D!Visible' /\ D!Place(d)' = D!Place(d) /\ d \in walk.due
<1>1. /\ store' = [store EXCEPT ![c] = v]
      /\ walk'.due = {e \in walk.due : e # c \/ (c \in D!Visible' /\ D!Place(c)' = D!Place(c)
                                                /\ v.named)}
  BY DEF D!Change
<1>2. CASE d = c
  BY <1>1, <1>2
<1>3. CASE d # c
  <2>1. d \in Code /\ store'[d] = store[d]
    BY <1>1, <1>3 DEF D!Visible, D!Listed, StoreTyped
  <2> QED BY <1>1, <2>1 DEF D!Visible, D!Listed, D!Place
<1> QED BY <1>2, <1>3

(* The store changes.                                                      *)
LEMMA ChangeStep ==
  ASSUME LInv, NEW c \in Code, NEW v \in D!Workshop \union {D!NoWorkshop}, D!Change(c, v)
  PROVE  LInv'
<1>1. StoreTyped /\ Walking(walk) /\ Fits(walk, paging) /\ Askable(paging)
  BY DEF LInv, PagesTyped
<1>2. /\ store' = [store EXCEPT ![c] = v] /\ UNCHANGED <<paging, page>>
      /\ walk' = [walk EXCEPT
           !.due = {d \in @ : d # c \/ (c \in D!Visible' /\ D!Place(c)' = D!Place(c) /\ v.named)},
           !.whole = @ /\ D!HostNamed(D!Visible)' = D!Visible']
  BY DEF D!Change
<1>3. walk = [way |-> walk.way, due |-> walk.due, shown |-> walk.shown,
              over |-> walk.over, whole |-> walk.whole]
  BY <1>1 DEF Walking
<1>4. /\ walk'.way = walk.way /\ walk'.due \in SUBSET walk.due /\ walk'.shown = walk.shown
      /\ walk'.over = walk.over
      /\ walk' = [way |-> walk'.way, due |-> walk'.due, shown |-> walk'.shown,
                  over |-> walk'.over, whole |-> walk'.whole]
  BY <1>2, <1>3
<1>5. walk'.whole => walk.whole /\ D!HostNamed(D!Visible)' = D!Visible'
  BY <1>2, <1>3
<1>6. Left(walk)' \in SUBSET Left(walk)
  BY <1>4 DEF Left
<1>7. StoreTyped'
  BY <1>1, <1>2 DEF StoreTyped
<1>8. PagesTyped' /\ Walking(walk)'
  BY <1>1, <1>2, <1>4, <1>5, <1>7 DEF LInv, PagesTyped, Walking, Askable, Cursors
<1>9. ASSUME walk'.whole, NEW d \in Left(walk)'
      PROVE  /\ d \in Left(walk) /\ D!Place(d)' = D!Place(d) /\ d \in D!Visible'
             /\ d \in D!Selected(paging)
  <2>1. d \in Left(walk) /\ d \in D!Selected(paging) /\ d \in walk'.due
    BY <1>1, <1>5, <1>6, <1>9 DEF Fits, Left
  <2>2. d \in D!Visible
    BY <1>1, <2>1, Asks, SelectedListed
  <2> QED BY <1>1, <1>3, <2>1, <2>2, Unmoved
<1>10. Fits(walk, paging)'
  <2>1. ASSUME walk'.whole, NEW d \in Left(walk)' PROVE d \in D!Selected(paging)'
    <3>1. D!Place(d)' = D!Place(d) /\ d \in D!Visible' /\ d \in D!Selected(paging)
      BY <1>9, <2>1
    <3>2. paging.kind \in {"first", "after", "before"}
      BY <1>1, Asks
    <3> QED BY <1>2, <3>1, <3>2 DEF D!Selected
  <2> QED BY <1>1, <1>2, <1>4, <1>5, <1>6, <2>1 DEF Fits
<1>11. ASSUME walk.way = "on" PROVE WalkOn'
  <2>1. walk'.whole => \A d \in Left(walk)' : D!Newer(page.next, D!Place(d)')
    BY <1>5, <1>9, <1>11 DEF LInv, WalkOn
  <2> QED BY <1>2, <1>4, <1>5, <1>9, <1>11, <2>1 DEF LInv, WalkOn
<1>12. ASSUME walk.way = "back" PROVE WalkBack'
  <2>1. walk'.whole => \A d \in Left(walk)' : D!Newer(D!Place(d)', page.prev)
    BY <1>5, <1>9, <1>12 DEF LInv, WalkBack
  <2> QED BY <1>2, <1>4, <1>5, <1>9, <1>12, <2>1 DEF LInv, WalkBack
<1> QED BY <1>4, <1>8, <1>10, <1>11, <1>12 DEF LInv

(* What the operations put into the store is a workshop.                   *)
LEMMA StoreSteps ==
  ASSUME LInv, NEW c \in Code,
         \/ D!Create(c) \/ D!Delete(c) \/ D!Join(c) \/ D!Start(c) \/ D!Finish(c)
         \/ D!Reset(c) \/ D!Archive(c) \/ D!LoseHost(c) \/ D!FindHost(c)
  PROVE  LInv'
<1>1. D!Clock \in Times
  BY ListAssumption DEF D!Clock
<1>2. ASSUME NEW own \in BOOLEAN PROVE D!New(D!Clock, own, TRUE) \in D!Workshop
  BY <1>1 DEF D!New, D!Workshop
<1>3. ASSUME c \in D!Listed PROVE store[c] \in D!Workshop
  BY <1>3 DEF LInv, PagesTyped, StoreTyped, D!Listed
<1>4. CASE D!Create(c)
  BY <1>2, <1>4, ChangeStep DEF D!Create
<1>5. CASE D!Delete(c)
  BY <1>5, ChangeStep DEF D!Delete
<1>6. CASE D!Join(c)
  <2>1. [store[c] EXCEPT !.mine = TRUE] \in D!Workshop
    BY <1>3, <1>6 DEF D!Join, D!Workshop
  <2> QED BY <1>6, <2>1, ChangeStep DEF D!Join
<1>7. CASE D!Start(c)
  <2>1. [store[c] EXCEPT !.phase = "play"] \in D!Workshop
    BY <1>3, <1>7 DEF D!Start, D!Workshop
  <2> QED BY <1>7, <2>1, ChangeStep DEF D!Start
<1>8. CASE D!Finish(c)
  <2>1. [store[c] EXCEPT !.phase = "end"] \in D!Workshop
    BY <1>3, <1>8 DEF D!Finish, D!Workshop
  <2> QED BY <1>8, <2>1, ChangeStep DEF D!Finish
<1>9. CASE D!Reset(c)
  <2>1. PICK m \in BOOLEAN : D!Change(c, [store[c] EXCEPT !.phase = "lobby", !.mine = m])
    BY <1>9 DEF D!Reset
  <2>2. [store[c] EXCEPT !.phase = "lobby", !.mine = m] \in D!Workshop
    BY <1>3, <1>9 DEF D!Reset, D!Workshop
  <2> QED BY <2>1, <2>2, ChangeStep
<1>10. CASE D!Archive(c)
  <2>1. [store[c] EXCEPT !.archived = D!Clock] \in D!Workshop
    BY <1>1, <1>3, <1>10 DEF D!Archive, D!Workshop
  <2> QED BY <1>10, <2>1, ChangeStep DEF D!Archive
<1>11. CASE D!LoseHost(c)
  <2>1. [store[c] EXCEPT !.named = FALSE] \in D!Workshop
    BY <1>3, <1>11 DEF D!LoseHost, D!Workshop
  <2> QED BY <1>11, <2>1, ChangeStep DEF D!LoseHost
<1>12. CASE D!FindHost(c)
  <2>1. [store[c] EXCEPT !.named = TRUE] \in D!Workshop
    BY <1>3, <1>12 DEF D!FindHost, D!Workshop
  <2> QED BY <1>12, <2>1, ChangeStep DEF D!FindHost
<1> QED BY <1>4, <1>5, <1>6, <1>7, <1>8, <1>9, <1>10, <1>11, <1>12

(* Every step of the list keeps the invariant.                             *)
LEMMA ListSteps == ASSUME LInv, D!Next PROVE LInv'
BY GoFirstStep, PollStep, GoNextStep, GoPrevStep, StoreSteps DEF D!Next

(* Nothing happens to the list.                                            *)
LEMMA ListStutters == ASSUME LInv, UNCHANGED listVars PROVE LInv'
<1>1. UNCHANGED <<store, paging, page, walk>>
  BY DEF listVars
<1> QED BY <1>1, SameList
        DEF LInv, PagesTyped, Walking, Fits, WalkOn, WalkBack, Left, Askable, Cursors

(* At first the first page is shown.                                       *)
LEMMA ListInit == ASSUME D!Init PROVE LInv
<1> DEFINE w == D!Begin("on", D!Visible)
<1>1. StoreTyped
  <2>1. ASSUME NEW t \in Times PROVE D!New(t, TRUE, TRUE) \in D!Workshop
    BY <2>1 DEF D!New, D!Workshop
  <2>2. {D!New(t, TRUE, TRUE) : t \in Times} \in SUBSET D!Workshop
    BY <2>1
  <2>3. store \in [Code -> {D!NoWorkshop} \union {D!New(t, TRUE, TRUE) : t \in Times}]
    BY DEF D!Init
  <2> QED BY <2>2, <2>3 DEF StoreTyped
<1>2. /\ paging = D!First /\ page = D!Answer(D!First)
      /\ walk = [w EXCEPT !.shown = page.rows, !.over = page.next = D!NoCursor]
  BY DEF D!Init
<1>3. Askable(D!First) /\ D!First.kind = "first" /\ D!Selected(D!First) = D!Visible
  BY DEF Askable, D!First, D!Selected
<1>4. w = [way |-> "on", due |-> D!HostNamed(D!Visible), shown |-> {}, over |-> FALSE,
           whole |-> D!HostNamed(D!Visible) = D!Visible]
  BY DEF D!Begin
<1> HIDE DEF w
<1>5. walk = [way |-> "on", due |-> D!HostNamed(D!Visible), shown |-> page.rows,
              over |-> page.next = D!NoCursor,
              whole |-> D!HostNamed(D!Visible) = D!Visible]
  BY <1>2, <1>4
<1>6. PagesTyped
  BY <1>1, <1>2, <1>3, Answers DEF PagesTyped
<1>7. /\ walk.way = "on" /\ (walk.over <=> page.next = D!NoCursor)
      /\ walk.whole => D!HostNamed(D!Visible) = D!Visible
      /\ Left(walk) = D!HostNamed(D!Visible) \ page.rows
  BY <1>5 DEF Left
<1>8. D!HostNamed(D!Visible) \in SUBSET D!Visible /\ D!Visible \in SUBSET Code
  BY DEF D!HostNamed, D!Visible, D!Listed
<1>9. Walking(walk)
  BY <1>5, <1>7, <1>8 DEF Walking
<1>10. Fits(walk, paging)
  BY <1>2, <1>3, <1>7, <1>8 DEF Fits
<1>11. WalkOn
  <2>1. walk.whole => \A c \in D!Visible \ page.rows : Beyond(c, D!First, page)
    BY <1>1, <1>2, <1>3, <1>7, Answers
  <2> QED BY <1>3, <1>7, <1>8, <2>1 DEF WalkOn, Beyond
<1> QED BY <1>6, <1>7, <1>9, <1>10, <1>11 DEF LInv

(* A walk that is over has nothing left, and the stores page alike.        *)
LEMMA WholePages == ASSUME LInv PROVE D!WalkShowsAll /\ D!PagesAgree
<1>1. D!WalkShowsAll
  BY DEF LInv, Walking, WalkOn, WalkBack, Left, D!WalkShowsAll
<1>2. ASSUME NEW p \in D!Asked PROVE p.kind \in {"first", "after", "before"}
  BY Asks DEF D!Asked, LInv, PagesTyped
<1>3. D!PagesAgree
  BY <1>2, StoresPageAlike DEF D!PagesAgree, LInv, PagesTyped
<1> QED BY <1>1, <1>3

(* The types of the list.                                                  *)
LEMMA ListTyped == ASSUME LInv PROVE D!TypeOK
BY Counted DEF LInv, PagesTyped, StoreTyped, D!TypeOK

-----------------------------------------------------------------------------
(* The client's models side by side: a behaviour is of one of them.        *)
ClientInv == /\ part = "session" => BInv
             /\ part = "list" => LInv
             /\ part = "tab" => TInv /\ Screens /\ Operations

(* The invariants of the broadcasts, of the list and of the tab.           *)
THEOREM ClientsAreSound == AnySpec => []ClientInv
<1>1. AnyInit => ClientInv
  BY InitHolds, ListInit, TabInit, TabInitTyped DEF AnyInit, ClientInv
<1>2. ASSUME ClientInv, [AnyNext]_<<part, vars, listVars, tabVars>> PROVE ClientInv'
  <2>1. CASE UNCHANGED <<part, vars, listVars, tabVars>>
    BY <1>2, <2>1, StutterStep, ListStutters, TabStutters, TabStutterTyped DEF ClientInv
  <2>2. CASE part = "session" /\ Next /\ UNCHANGED <<part, listVars, tabVars>>
    BY <1>2, <2>2, StepHolds DEF ClientInv
  <2>3. CASE part = "list" /\ D!Next /\ UNCHANGED <<part, vars, tabVars>>
    BY <1>2, <2>3, ListSteps DEF ClientInv
  <2>4. CASE part = "tab" /\ T!Next /\ UNCHANGED <<part, vars, listVars>>
    BY <1>2, <2>4, TabSteps, TabStaysTyped DEF ClientInv
  <2> QED BY <1>2, <2>1, <2>2, <2>3, <2>4 DEF AnyNext
<1> QED BY <1>1, <1>2, PTL DEF AnySpec

(* When nothing is on its way, a connected client shows the session as the *)
(* server has it: see QuietClientsAreCurrent.                              *)
THEOREM ClientsAreCurrent == AnySpec => []CurrentWhenQuiet
<1>1. ClientInv => CurrentWhenQuiet
  BY SoundIsCurrent DEF ClientInv, CurrentWhenQuiet
<1> QED BY <1>1, ClientsAreSound, PTL

(* What reserves the tab from outside a session is waited for by a task,   *)
(* whatever is clicked and whichever answers come late: no button leads    *)
(* away from a view while an operation of its own is under way.            *)
THEOREM TabsAreReleased == AnySpec => []ReservedIsAwaited
<1>1. ClientInv => ReservedIsAwaited
  BY DEF ClientInv, ReservedIsAwaited, T!ReservedIsAwaited, TInv, Awaited
<1> QED BY <1>1, ClientsAreSound, PTL

(* The characters listed are the signed-in account's, and in a session the *)
(* state and the archive shown are that session's, however late an answer  *)
(* comes.                                                                  *)
THEOREM TabsShowTheirOwn == AnySpec => []ShowsItsOwn
<1>1. ClientInv => ShowsItsOwn
  BY DEF ClientInv, ShowsItsOwn, T!ShowsItsOwn, TInv, Accounted, Seated
<1> QED BY <1>1, ClientsAreSound, PTL

(* Every variable of the three models has its type.                        *)
THEOREM ClientsAreTyped == AnySpec => []TypesOK
<1>1. BInv => TypeOK
  BY SoundIsTyped
<1>2. ClientInv => TypesOK
  BY <1>1, ListTyped, TabTyped DEF ClientInv, TypesOK
<1> QED BY <1>2, ClientsAreSound, PTL

(* Paging through the list from one end to the other shows every workshop  *)
(* that was to be shown throughout, whatever others create, play, archive  *)
(* and delete meanwhile; and the two stores page alike.                    *)
THEOREM PagingShowsAll == AnySpec => []PagesAreWhole
<1>1. ClientInv => PagesAreWhole
  BY WholePages DEF ClientInv, PagesAreWhole
<1> QED BY <1>1, ClientsAreSound, PTL
=============================================================================
