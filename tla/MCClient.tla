------------------------------ MODULE MCClient ------------------------------
(***************************************************************************)
(* What a browser shows.  Three models answer: Broadcasts, for the state   *)
(* of a session; Directory, for the pages of the list of workshops; and    *)
(* Tab, for the screens, the answers and the account they belong to.  They *)
(* share no state, so a behaviour is one of the three: part says which,    *)
(* and what belongs to the others is Unused.                               *)
(***************************************************************************)
EXTENDS Broadcasts, TLC

CONSTANTS
  Code, PageSize, Times, MaxChanges,                   \* of Directory
  Account, MaxTasks, MaxSessions,                      \* of Tab
  Unused

VARIABLES
  part,
  store, changes, paging, page, walk,
  screen, account, snapshot, status, restored, game, socket, bundle, pending, tasks,
  loads, mine

listVars == <<store, changes, paging, page, walk>>
tabVars  == <<screen, account, snapshot, status, restored, game, socket, bundle,
              pending, tasks, loads, mine>>

D == INSTANCE Directory
T == INSTANCE Tab WITH MaxVisits <- MaxSessions

(* Nobody stands for no account.                                           *)
ASSUME ClientAssumption == Nobody \notin Account /\ {MaxTasks, MaxSessions} \subseteq Nat

(* Codes and times are numbers, and of the times one is the last.          *)
ASSUME ListAssumption ==
  /\ IsFiniteSet(Code) /\ Code \subseteq Nat \ {0} /\ PageSize \in Nat \ {0}
  /\ Times \subseteq Nat \ {0} /\ \E t \in Times : \A u \in Times : u <= t

NoSession == /\ stored = Unused /\ cached = Unused /\ writer = Unused /\ dirty = Unused
             /\ drains = Unused /\ task = Unused /\ conn = Unused /\ browser = Unused
             /\ visits = Unused /\ faults = Unused /\ clock = Unused /\ undone = Unused
NoList    == /\ store = Unused /\ changes = Unused /\ paging = Unused /\ page = Unused
             /\ walk = Unused
NoTab     == /\ screen = Unused /\ account = Unused /\ snapshot = Unused /\ status = Unused
             /\ restored = Unused /\ game = Unused /\ socket = Unused /\ bundle = Unused
             /\ pending = Unused /\ tasks = Unused /\ loads = Unused /\ mine = Unused

AnyInit == \/ part = "session" /\ Init /\ NoList /\ NoTab
           \/ part = "list" /\ D!Init /\ NoSession /\ NoTab
           \/ part = "tab" /\ T!Init /\ NoSession /\ NoList
AnyNext == \/ part = "session" /\ Next /\ UNCHANGED <<part, listVars, tabVars>>
           \/ part = "list" /\ D!Next /\ UNCHANGED <<part, vars, tabVars>>
           \/ part = "tab" /\ T!Next /\ UNCHANGED <<part, vars, listVars>>
AnySpec == AnyInit /\ [][AnyNext]_<<part, vars, listVars, tabVars>>

Interchangeable == Permutations(Task) \cup Permutations(Account)

(* Every variable has its type.                                            *)
TypesOK == /\ part = "session" => TypeOK
           /\ part = "list" => D!TypeOK
           /\ part = "tab" => T!TypeOK

(* When nothing is on its way, a connected client shows the session as the *)
(* server has it.                                                          *)
CurrentWhenQuiet == part = "session" => QuietMeansCurrent

(* Paging through the list from one end to the other shows every workshop  *)
(* that was to be shown throughout; and the two stores page alike.         *)
PagesAreWhole == part = "list" => D!WalkShowsAll /\ D!PagesAgree

(* Outside a session, what reserves the tab is waited for by a task.       *)
ReservedIsAwaited == part = "tab" => T!ReservedIsAwaited

(* Lists, states and archives shown are those of the account and session.  *)
ShowsItsOwn == part = "tab" => T!ShowsItsOwn
=============================================================================
