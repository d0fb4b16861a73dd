-------------------------------- MODULE Tab --------------------------------
(***************************************************************************)
(* One browser tab of the web client (app-web): its screens, the one       *)
(* operation it may have pending, the tasks that wait for the server's     *)
(* answers and the realtime socket of the session it shows.                *)
(*                                                                         *)
(* A task belongs to the view that started it and is dropped when that     *)
(* view leaves the page; a task of the app bar or of the root ("App")      *)
(* lasts.  The server is not modelled: it may give any answer, and an      *)
(* update may carry any phase (which one it is is the subject of the       *)
(* module Broadcasts).  "Play" stands for the three phases in which        *)
(* dragons are played with, "Revealed" for a vote whose results are shown. *)
(* The list of workshops is the subject of the module Directory; notices,  *)
(* sprites and failures of the browser's storage are left out.             *)
(***************************************************************************)
EXTENDS Naturals, FiniteSets

CONSTANTS Account,      \* people who sign in at this browser
          Nobody,       \* not an account: signed out, or a list nobody loaded
          MaxTasks,     \* operations told apart at a time
          MaxVisits     \* sessions, as the client knows them, told apart at a time

VARIABLES
  screen,       \* the screen shown
  account,      \* who is signed in
  snapshot,     \* the session and seat the tab is in, 0 for none
  status,       \* of the realtime connection
  restored,     \* the session was restored at start and no update has come yet
  game,         \* the session and the phase the last state was of
  socket,       \* the realtime socket is open
  bundle,       \* the session whose archive is shown, 0 for none
  pending,      \* the operation under way, with its generation
  tasks,        \* the tasks that wait for an answer
  loads,        \* requests for the account's characters
  mine          \* whose characters are listed
vars == <<screen, account, snapshot, status, restored, game, socket, bundle,
          pending, tasks, loads, mine>>

Phase == {"Lobby", "Play", "Voting", "Revealed", "End"}
Flow == {"SignIn", "Logout", "Manage", "Join", "Resume", "Review", "Save", "Edit"}
Command == {"StartPlay", "StartVoting", "Reveal", "EndSession", "ResetGame", "Other"}
None == [kind |-> "none", id |-> 0, inside |-> FALSE]
NoGame == [of |-> 0, phase |-> "Lobby"]

-----------------------------------------------------------------------------
(* What is mounted.                                                        *)

\* The view on the page.  Each phase has a view of its own in a session.
View(s, g) == IF s # "Session" THEN s
              ELSE IF g.of = 0 THEN "Syncing"
              ELSE IF g.phase = "Revealed" THEN "Voting" ELSE g.phase

\* The tasks that outlive a step: those of the view that is still there.
Kept(T) == {t \in T : t.view \in {View(screen', game'), "App"}}

\* The smallest name that nothing in memory bears.
Fresh(used, n) == {i \in 1..n \ used : \A j \in 1..(i - 1) : j \in used}

IsCurrent(t) == pending.kind = t.kind /\ pending.id = t.id
FlowPending == pending.kind \in Flow

-----------------------------------------------------------------------------
Init == /\ screen = "SignIn" /\ account = Nobody /\ snapshot = 0 /\ status = "Offline"
        /\ restored = FALSE /\ game = NoGame /\ socket = FALSE /\ bundle = 0
        /\ pending = None /\ tasks = {} /\ loads = {} /\ mine = Nobody

\* Reserve the tab for one operation, for which a task of the given view waits.
Reserve(kind, view) ==
  /\ pending.kind = "none"
  /\ \E id \in Fresh({t.id : t \in tasks}, MaxTasks) :
       /\ pending' = [kind |-> kind, id |-> id, inside |-> snapshot # 0]
       /\ tasks' = Kept(tasks \union
                        {[kind |-> kind, id |-> id, view |-> view, of |-> snapshot]})

Ends(t) == tasks' = Kept(tasks \ {t})
Released(t) == pending' = (IF IsCurrent(t) THEN None ELSE pending)

\* The tab is in no session any more.
LeavesSession(next) ==
  /\ screen' = next /\ snapshot' = 0 /\ status' = "Offline"
  /\ restored' = FALSE /\ socket' = FALSE

\* Lists that are still being loaded are not waited for, those shown are emptied.
ClearLists == loads' = {[r EXCEPT !.live = FALSE] : r \in loads} /\ mine' = Nobody

Stays == UNCHANGED <<screen, snapshot, status, restored, socket>>

-----------------------------------------------------------------------------
(* Accounts.                                                               *)

SignIn == /\ screen = "SignIn"
          /\ Stays /\ UNCHANGED <<account, game, bundle, loads, mine>>
          /\ Reserve("SignIn", "SignIn")

SignedIn(t) ==
  /\ t.kind = "SignIn"
  /\ IF IsCurrent(t)
       THEN \/ \E a \in Account : account' = a /\ screen' = "AccountHome"
            \/ UNCHANGED <<account, screen>>
       ELSE UNCHANGED <<account, screen>>
  /\ Released(t)
  /\ UNCHANGED <<snapshot, status, restored, socket, game, bundle, loads, mine>>
  /\ Ends(t)

\* The tab forgets the account first and tells the server after.
Logout == /\ account # Nobody
          /\ account' = Nobody
          /\ LeavesSession("SignIn") /\ ClearLists
          /\ UNCHANGED <<game, bundle>>
          /\ Reserve("Logout", "App")

LoggedOut(t) == /\ t.kind = "Logout"
                /\ Released(t)
                /\ Stays /\ UNCHANGED <<account, game, bundle, loads, mine>>
                /\ Ends(t)

\* The account's characters are listed from the app bar.
LoadMine == /\ account # Nobody /\ pending.kind = "none"
            /\ \A r \in loads : ~r.live
            /\ loads' = loads \union {[owner |-> account, live |-> TRUE]}
            /\ UNCHANGED <<screen, account, snapshot, status, restored, game, socket,
                           bundle, pending, tasks, mine>>

LoadedMine(r) == /\ loads' = loads \ {r}
                 /\ mine' \in (IF r.live THEN {r.owner, mine} ELSE {mine})
                 /\ UNCHANGED <<screen, account, snapshot, status, restored, game, socket,
                                bundle, pending, tasks>>

\* Rename or delete a character, from the app bar.
Edit == /\ account # Nobody /\ mine # Nobody
        /\ Stays /\ UNCHANGED <<account, game, bundle, loads, mine>>
        /\ Reserve("Edit", "App")

Edited(t) == /\ t.kind = "Edit"
             /\ Released(t)
             /\ Stays /\ UNCHANGED <<account, game, bundle, loads, mine>>
             /\ Ends(t)

-----------------------------------------------------------------------------
(* Screens outside a session.                                              *)

Navigate(next) == /\ screen' = next
                  /\ UNCHANGED <<account, snapshot, status, restored, game, socket,
                                 bundle, pending, loads, mine>>
                  /\ tasks' = Kept(tasks)

\* The app bar's dialog opens the character form from any screen, a session's too.
OpenForm == \/ account # Nobody /\ pending.kind = "none"
            \/ screen = "AccountHome" /\ ~FlowPending

\* The wordmark leads home, but not while a join is under way.
WordmarkAlways == screen = "PickCharacter"
WordmarkEnabled == screen = "PickCharacter" /\ pending.kind # "Join"

GoHome == \/ WordmarkEnabled
          \/ screen = "PickCharacter" /\ ~FlowPending
          \/ screen = "CreateCharacter" /\ \A t \in tasks : t.kind # "Save"

Browse == \/ OpenForm /\ Navigate("CreateCharacter")
          \/ GoHome /\ Navigate("AccountHome")
          \/ screen = "AccountHome" /\ ~FlowPending /\ Navigate("PickCharacter")

\* Create, update or delete a workshop.
Manage == /\ screen = "AccountHome"
          /\ Stays /\ UNCHANGED <<account, game, bundle, loads, mine>>
          /\ Reserve("Manage", "AccountHome")

\* A workshop that was created sets the connection offline, and so does a failure.
Created(t) == /\ t.kind = "Manage" /\ IsCurrent(t)
              /\ status' = "Offline" /\ pending' = None
              /\ UNCHANGED <<screen, account, snapshot, restored, socket, game, bundle,
                             loads, mine>>
              /\ Ends(t)

\* An update or a removal has been answered, and the list loaded again.
Managed(t) == /\ t.kind = "Manage"
              /\ Released(t)
              /\ Stays /\ UNCHANGED <<account, game, bundle, loads, mine>>
              /\ Ends(t)

Save == /\ screen = "CreateCharacter"
        /\ Stays /\ UNCHANGED <<account, game, bundle, loads, mine>>
        /\ Reserve("Save", "CreateCharacter")

Saved(t) == /\ t.kind = "Save"
            /\ screen' \in (IF IsCurrent(t) THEN {"AccountHome", screen} ELSE {screen})
            /\ Released(t)
            /\ UNCHANGED <<account, snapshot, status, restored, socket, game, bundle,
                           loads, mine>>
            /\ Ends(t)

-----------------------------------------------------------------------------
(* Into a session and out of it.                                           *)

Enter(kind) ==
  /\ \/ kind = "Join" /\ screen = "PickCharacter"
     \/ kind \in {"Resume", "Review"} /\ screen = "AccountHome"
  /\ status' = "Connecting"
  /\ UNCHANGED <<screen, account, snapshot, restored, game, socket, bundle, loads, mine>>
  /\ Reserve(kind, IF kind = "Review" THEN "App" ELSE screen)

\* Open the socket of a session, or fail to.
Synced(isRestored, visit, p) ==
  \/ status' = "Connecting" /\ socket' = TRUE /\ game' = [of |-> visit, phase |-> p]
  \/ /\ status' = "Offline" /\ socket' = FALSE
     /\ game' = IF isRestored THEN NoGame ELSE [of |-> visit, phase |-> p]

\* The request was answered with a session: show it and open its socket.  A review
\* goes on and asks for the archive.
Entered(t) ==
  /\ IsCurrent(t)
  /\ \E visit \in Fresh({snapshot, bundle, game.of} \union {u.of : u \in tasks}, MaxVisits),
        p \in Phase :
       /\ screen' = "Session" /\ snapshot' = visit
       /\ Synced(restored, visit, p)
       /\ bundle' = 0 /\ pending' = None
       /\ mine' = IF t.kind = "Resume" THEN mine ELSE Nobody
       /\ tasks' = Kept((tasks \ {t}) \union
                        (IF t.kind = "Review" THEN {[t EXCEPT !.kind = "Bundle", !.of = visit]}
                         ELSE {}))
  /\ UNCHANGED <<account, restored, loads>>

\* The request was refused: a workshop that is gone takes the session along.
Refused(t) ==
  /\ IsCurrent(t)
  /\ \/ LeavesSession("AccountHome")
     \/ status' = "Offline" /\ UNCHANGED <<screen, snapshot, restored, socket>>
  /\ pending' = None
  /\ UNCHANGED <<account, game, bundle, loads, mine>>
  /\ Ends(t)

Late(t) == /\ ~IsCurrent(t)
           /\ Stays /\ UNCHANGED <<account, game, bundle, pending, loads, mine>>
           /\ Ends(t)

Answered(t) == t.kind \in {"Join", "Resume", "Review"} /\ (Entered(t) \/ Refused(t) \/ Late(t))

\* A review's archive is shown if the tab is still in that session.
AnySession(t) == TRUE
SameSession(t) == snapshot = t.of
Reviewed(t) == /\ t.kind = "Bundle"
               /\ bundle' \in (IF SameSession(t) THEN {t.of, bundle} ELSE {bundle})
               /\ Stays /\ UNCHANGED <<account, game, pending, loads, mine>>
               /\ Ends(t)

\* The lobby's button needs a tab without a flow, that of the end nothing at all.
Leave == /\ screen = "Session" /\ game.of # 0
         /\ game.phase = "End" \/ (game.phase = "Lobby" /\ ~FlowPending)
         /\ LeavesSession("AccountHome") /\ ClearLists
         /\ pending' = None
         /\ UNCHANGED <<account, game, bundle>>
         /\ tasks' = Kept(tasks)

\* "Back to home" of the panel shown while a session that was restored is synced.
GiveUp == /\ View(screen, game) = "Syncing" /\ status = "Offline"
          /\ LeavesSession("AccountHome")
          /\ pending' = None
          /\ UNCHANGED <<account, game, bundle, loads, mine>>
          /\ tasks' = Kept(tasks)

\* The page is loaded again: memory is lost, the account and the session are kept
\* by the browser, the last state perhaps.
Reload ==
  /\ account # Nobody
  /\ screen' = (IF snapshot # 0 THEN "Session" ELSE "AccountHome")
  /\ restored' = (snapshot # 0)
  /\ IF snapshot = 0
       THEN status' = "Offline" /\ socket' = FALSE /\ game' = NoGame
       ELSE \/ \E p \in Phase : Synced(TRUE, snapshot, p)
            \/ status' = "Connecting" /\ socket' = TRUE /\ game' = NoGame
  /\ bundle' = 0 /\ pending' = None /\ tasks' = {} /\ loads' = {} /\ mine' = Nobody
  /\ UNCHANGED <<account, snapshot>>

-----------------------------------------------------------------------------
(* In a session.                                                           *)

Offered == [Lobby |-> {"StartPlay", "Other"}, Play |-> {"StartVoting", "Other"},
            Voting |-> {"Reveal", "Other"}, Revealed |-> {"EndSession"},
            End |-> {"ResetGame"}]

Send(command) == /\ screen = "Session" /\ game.of # 0 /\ status = "Connected"
                 /\ command \in Offered[game.phase]
                 /\ Stays /\ UNCHANGED <<account, game, bundle, loads, mine>>
                 /\ Reserve(command, View(screen, game))

\* The command's own answer: a session that is gone is left.
Sent(t) ==
  /\ t.kind \in Command
  /\ IF snapshot = t.of /\ IsCurrent(t)
       THEN \/ /\ status' = "Connected"
               /\ bundle' = IF t.kind = "ResetGame" THEN 0 ELSE bundle
               /\ UNCHANGED <<screen, snapshot, restored, socket>>
            \/ Stays /\ UNCHANGED bundle
            \/ LeavesSession("AccountHome") /\ UNCHANGED bundle
       ELSE Stays /\ UNCHANGED bundle
  /\ Released(t)
  /\ UNCHANGED <<account, game, loads, mine>>
  /\ Ends(t)

\* Ask for the archive; from a finished vote, end the session first.
Archive == /\ screen = "Session" /\ game.of # 0 /\ status = "Connected"
           /\ game.phase \in {"Revealed", "End"} /\ bundle = 0
           /\ Stays /\ UNCHANGED <<account, game, bundle, loads, mine>>
           /\ Reserve("Archive", View(screen, game))

Archived(t) ==
  /\ t.kind = "Archive"
  /\ IF snapshot = t.of /\ IsCurrent(t)
       THEN \/ bundle' = t.of /\ Stays
            \/ UNCHANGED bundle /\ Stays
            \/ UNCHANGED bundle /\ LeavesSession("AccountHome")
       ELSE UNCHANGED bundle /\ Stays
  /\ Released(t)
  /\ UNCHANGED <<account, game, loads, mine>>
  /\ Ends(t)

Completed(command, p) ==
  \/ command = "StartPlay" /\ p = "Play"
  \/ command = "StartVoting" /\ p \in {"Voting", "Revealed"}
  \/ command = "Reveal" /\ p = "Revealed"
  \/ command = "EndSession" /\ p = "End"
  \/ command = "ResetGame" /\ p = "Lobby"

\* A full state arrives: the tab shows the session, whatever it showed before.
StateUpdate(p) ==
  /\ socket
  /\ screen' = "Session" /\ game' = [of |-> snapshot, phase |-> p]
  /\ status' = "Connected" /\ restored' = FALSE
  /\ bundle' = IF p = "End" THEN bundle ELSE 0
  /\ pending' = IF Completed(pending.kind, p) \/ (pending.kind = "Archive" /\ p # "End")
                  THEN None ELSE pending
  /\ UNCHANGED <<account, snapshot, socket, loads, mine>>
  /\ tasks' = Kept(tasks)

\* The connection fails.  A session that was restored loses the state shown.
Disconnected == status' = "Offline" /\ game' = IF restored THEN NoGame ELSE game

\* The socket closes, or the attach is refused; if the seat is no longer the
\* tab's, the session is forgotten.
Drop == /\ socket
        /\ \/ Disconnected /\ socket' = FALSE /\ UNCHANGED <<screen, snapshot, restored>>
           \/ /\ status = "Connecting"
              /\ LeavesSession("AccountHome")
              /\ game' = IF restored THEN NoGame ELSE game
        /\ UNCHANGED <<account, bundle, pending, loads, mine>>
        /\ tasks' = Kept(tasks)

-----------------------------------------------------------------------------
AnAnswer == \E t \in tasks : \/ SignedIn(t) \/ LoggedOut(t) \/ Edited(t) \/ Created(t)
                             \/ Managed(t) \/ Saved(t) \/ Answered(t) \/ Reviewed(t)
                             \/ Sent(t) \/ Archived(t)

Next == \/ SignIn \/ Logout \/ LoadMine \/ Edit \/ Browse \/ Manage \/ Save
        \/ \E kind \in {"Join", "Resume", "Review"} : Enter(kind)
        \/ Leave \/ GiveUp \/ Reload \/ Archive \/ Drop
        \/ \E command \in Command : Send(command)
        \/ \E p \in Phase : StateUpdate(p)
        \/ \E r \in loads : LoadedMine(r)
        \/ AnAnswer

Spec == Init /\ [][Next]_vars

-----------------------------------------------------------------------------
\* Every variable has its type, and a session is only shown to an account.
TypeOK ==
  /\ screen \in {"SignIn", "AccountHome", "CreateCharacter", "PickCharacter", "Session"}
  /\ account \in Account \union {Nobody} /\ mine \in Account \union {Nobody}
  /\ (screen = "SignIn") = (account = Nobody)
  /\ snapshot \in 0..MaxVisits /\ (screen = "Session" => snapshot # 0)
  /\ status \in {"Offline", "Connecting", "Connected"}
  /\ restored \in BOOLEAN /\ socket \in BOOLEAN /\ bundle \in 0..MaxVisits
  /\ game \in [of : 0..MaxVisits, phase : Phase]
  /\ pending \in [kind : Flow \union Command \union {"Archive", "none"},
                  id : 0..MaxTasks, inside : BOOLEAN]
  /\ \A t \in tasks : /\ t.kind \in Flow \union Command \union {"Archive", "Bundle"}
                      /\ t.id \in 1..MaxTasks /\ t.of \in 0..MaxVisits
  /\ loads \subseteq [owner : Account, live : BOOLEAN]

\* An operation that keeps the tab reserved is waited for by a task, unless the
\* tab was in a session when it began: only a state of that session, or its end,
\* takes a view away under an operation of its own.  Without this a button that
\* changes the screen while a request is out would leave the tab refusing every
\* operation, signing out included, until the page is loaded again.
ReservedIsAwaited ==
  pending.kind # "none" => \/ \E t \in tasks : IsCurrent(t)
                           \/ pending.inside

\* What the tab shows is its own, however late an answer comes: the characters
\* listed are the signed-in account's, and in a session the state and the archive
\* are that session's.
ShowsItsOwn ==
  /\ mine # Nobody => mine = account
  /\ screen = "Session" => game.of \in {0, snapshot} /\ bundle \in {0, snapshot}
=============================================================================
