------------------------------ MODULE Directory ------------------------------
(***************************************************************************)
(* The list of workshops an account sees, and walking through its pages    *)
(* while workshops are created, played, archived and deleted.              *)
(*                                                                         *)
(* The list is ordered by time, newest first, and by code.  A page is      *)
(* asked for as the first one, or as what comes after or before a cursor:  *)
(* a row's place in that order.  One row more than the page holds is       *)
(* fetched to know whether there are others; a row without a host's name   *)
(* is dropped after that.                                                  *)
(***************************************************************************)
EXTENDS Naturals, FiniteSets

CONSTANTS
  Code,        \* the session codes, numbers in their order
  PageSize,
  Times,       \* the times at which things happen, numbers
  MaxChanges   \* bound: changes of the store

VARIABLES
  store,       \* the sessions, and when each was archived
  changes,     \* of the store so far
  paging,      \* the page the browser asks for
  page,        \* and the answer it shows
  walk         \* history: the rows that were to be shown since the browser
               \* last turned round, and those that were
vars == <<store, changes, paging, page, walk>>

NoWorkshop == [phase |-> "none"]
Workshop   == [phase: {"lobby", "play", "end"}, created: Times, archived: Times \cup {0},
               named: BOOLEAN, mine: BOOLEAN]
First      == [kind |-> "first"]
NoCursor   == [code |-> 0]

Listed == {c \in Code : store[c] # NoWorkshop}

(* The rows the query selects: lobbies, and the account's own or joined    *)
(* workshops unless they have ended and were not archived.                 *)
Visible ==
  {c \in Listed : \/ store[c].phase = "lobby"
                  \/ store[c].mine /\ (store[c].phase = "end" => store[c].archived # 0)}

(* A workshop that was ever archived is listed by that time.               *)
Place(c) == [code |-> c,
             at |-> IF store[c].archived # 0 THEN store[c].archived ELSE store[c].created]
Newer(x, y)     == x.at > y.at \/ (x.at = y.at /\ x.code < y.code)

-----------------------------------------------------------------------------
(* list_open_workshops. *)

Rank(c, S)        == Cardinality({d \in S : Newer(Place(d), Place(c))})
NewestOf(S, n)    == {c \in S : Rank(c, S) < n}
OldestOf(S, n)    == {c \in S : Rank(c, S) >= Cardinality(S) - n}
HostNamed(S)      == {c \in S : store[c].named}

Selected(p) ==
  CASE p.kind = "first"  -> Visible
    [] p.kind = "after"  -> {c \in Visible : Newer(p.cursor, Place(c))}
    [] p.kind = "before" -> {c \in Visible : Newer(Place(c), p.cursor)}

(* The page is what is next to the cursor: before it, an extra row is      *)
(* dropped from the front.                                                 *)
TruncatedBack(p, rows) == NewestOf(rows, PageSize)
Truncated(p, rows)     == IF p.kind = "before" THEN OldestOf(rows, PageSize)
                          ELSE NewestOf(rows, PageSize)
Fetched(p) == HostNamed(IF p.kind = "before" THEN OldestOf(Selected(p), PageSize + 1)
                        ELSE NewestOf(Selected(p), PageSize + 1))

FirstOf(rows) == IF rows = {} THEN NoCursor ELSE Place(CHOOSE c \in rows : Rank(c, rows) = 0)
LastOf(rows)  == IF rows = {} THEN NoCursor
                 ELSE Place(CHOOSE c \in rows : Rank(c, rows) = Cardinality(rows) - 1)

PageOf(p, found) ==
  LET rows == Truncated(p, found)
      more == rows # found
  IN  [rows |-> rows,
       next |-> IF p.kind = "before" \/ more THEN LastOf(rows) ELSE NoCursor,
       prev |-> IF p.kind = "after" \/ (p.kind = "before" /\ more) THEN FirstOf(rows)
                ELSE NoCursor]

Answer(p) == PageOf(p, Fetched(p))

(* The store in memory drops rows without a host's name first, and counts  *)
(* all that are left.                                                      *)
MemoryAnswer(p) == PageOf(p, HostNamed(Selected(p)))

-----------------------------------------------------------------------------
(* The browser: load_open_workshops_flow by its buttons and its poll.  A   *)
(* page before which there is none is replaced by the first one at once.   *)
Normalized(p, answer) == IF p.kind = "before" /\ answer.prev = NoCursor THEN First ELSE p

(* A walk begins at the first page, or with the page beside the one shown. *)
Begin(way, rows) == [way |-> way, due |-> HostNamed(rows), shown |-> {}, over |-> FALSE,
                     whole |-> HostNamed(Visible) = Visible]

Show(p, w) ==
  LET answer == Answer(p)
      end    == IF w.way = "back" THEN answer.prev ELSE answer.next
  IN
  /\ paging' = Normalized(p, answer)
  /\ page' = IF paging' = p THEN answer ELSE Answer(First)
  /\ walk' = [w EXCEPT !.shown = @ \cup answer.rows, !.over = end = NoCursor]
  /\ UNCHANGED <<store, changes>>

GoFirst == Show(First, Begin("on", Visible))
Poll    == Show(paging, walk)
GoNext  ==
  /\ page.next # NoCursor
  /\ LET p == [kind |-> "after", cursor |-> page.next]
     IN  Show(p, IF walk.way = "on" THEN walk ELSE Begin("on", Selected(p)))
GoPrev  ==
  /\ page.prev # NoCursor
  /\ LET p == [kind |-> "before", cursor |-> page.prev]
     IN  Show(p, IF walk.way = "back" THEN walk ELSE Begin("back", Selected(p)))

-----------------------------------------------------------------------------
(* The store changes.  A row that has moved or been hidden need not be     *)
(* shown any more by a walk that is under way.                             *)
Change(c, w) ==
  /\ changes < MaxChanges /\ changes' = changes + 1
  /\ store' = [store EXCEPT ![c] = w]
  /\ walk' = [walk EXCEPT
       !.due = {d \in @ : d # c \/ (c \in Visible' /\ Place(c)' = Place(c) /\ w.named)},
       !.whole = @ /\ HostNamed(Visible)' = Visible']
  /\ UNCHANGED <<paging, page>>

Clock == CHOOSE t \in Times : \A u \in Times : u <= t
New(t, mine, named) == [phase |-> "lobby", created |-> t, archived |-> 0,
                        named |-> named, mine |-> mine]

Create(c) == /\ store[c] = NoWorkshop
             /\ \E mine \in BOOLEAN : Change(c, New(Clock, mine, TRUE))
Delete(c) == c \in Listed /\ store[c].phase = "lobby" /\ Change(c, NoWorkshop)
Join(c)   == c \in Listed /\ store[c].phase = "lobby" /\ ~store[c].mine
             /\ Change(c, [store[c] EXCEPT !.mine = TRUE])
Start(c)  == c \in Listed /\ store[c].phase = "lobby"
             /\ Change(c, [store[c] EXCEPT !.phase = "play"])
Finish(c) == c \in Listed /\ store[c].phase = "play"
             /\ Change(c, [store[c] EXCEPT !.phase = "end"])
Reset(c)  == c \in Listed /\ store[c].phase # "lobby"
             /\ \E mine \in BOOLEAN : Change(c, [store[c] EXCEPT !.phase = "lobby", !.mine = mine])
(* workshop_judge_bundle notes only the first archive of a workshop.       *)
Archive(c) == c \in Listed /\ store[c].phase = "end" /\ store[c].archived = 0
              /\ Change(c, [store[c] EXCEPT !.archived = Clock])
(* The last host has left, and neither is the owner a player.              *)
LoseHost(c) == c \in Listed /\ store[c].named
               /\ Change(c, [store[c] EXCEPT !.named = FALSE])
FindHost(c) == c \in Listed /\ ~store[c].named
               /\ Change(c, [store[c] EXCEPT !.named = TRUE])

Init ==
  /\ store \in [Code -> {NoWorkshop} \cup {New(t, TRUE, TRUE) : t \in Times}]
  /\ changes = 0
  /\ paging = First
  /\ page = Answer(First)
  /\ walk = [Begin("on", Visible) EXCEPT !.shown = page.rows, !.over = page.next = NoCursor]

Next ==
  \/ GoFirst \/ Poll \/ GoNext \/ GoPrev
  \/ \E c \in Code : \/ Create(c) \/ Delete(c) \/ Join(c) \/ Start(c) \/ Finish(c)
                     \/ Reset(c) \/ Archive(c) \/ LoseHost(c) \/ FindHost(c)

Spec == Init /\ [][Next]_vars

-----------------------------------------------------------------------------
TypeOK ==
  /\ store \in [Code -> Workshop \cup {NoWorkshop}]
  /\ page.rows \subseteq Code /\ Cardinality(page.rows) <= PageSize

(* Who walks through the list with "next" from the first page, or back     *)
(* with "previous" from any page, is shown every workshop that stayed in   *)
(* its place, whatever the others do meanwhile - as long as no listed      *)
(* workshop is without a host's name.                                      *)
WalkShowsAll == walk.over /\ walk.whole => walk.due \subseteq walk.shown

(* Both stores answer with the same page, and with the same cursors, while *)
(* every listed workshop has a host's name; else the page from Postgres    *)
(* may lack rows that the store in memory shows, and has none it lacks.    *)
Asked == {paging} \cup {[kind |-> k, cursor |-> cur] : k \in {"after", "before"},
                                                     cur \in {page.next, page.prev} \ {NoCursor}}
PagesAgree ==
  \A p \in Asked :
    /\ HostNamed(Visible) = Visible => Answer(p) = MemoryAnswer(p)
    /\ Answer(p).rows \subseteq MemoryAnswer(p).rows
=============================================================================
