------------------------------ MODULE Accounts ------------------------------
(***************************************************************************)
(* Signing in, and the limits on how often a client may ask.               *)
(*                                                                         *)
(* One request both creates an account and logs in to it: the name is      *)
(* looked up, the password is compared or hashed in another thread, and a  *)
(* new row is inserted, each a step of its own.  The name's index is what  *)
(* keeps two requests from creating one account.  The cookie names the     *)
(* account, and nothing else is kept of a login.                           *)
(*                                                                         *)
(* A limiter counts the requests of a key in windows of fixed length, the  *)
(* first of which begins with the first request.  Clients are told apart   *)
(* by their address, accounts by their id.                                 *)
(***************************************************************************)
EXTENDS Naturals, FiniteSets, Sequences

CONSTANTS
  Browser,
  Name, Lower,         \* names as they are typed, and in lower case
  Password,
  Address, Forwarded,  \* of each browser: its peer, what a proxy says of it
  TrustForwarded,      \* trust_forwarded_for
  Nothing,
  Limit, Window,       \* max_requests and window_ms of every limiter
  Crowd,               \* buckets above which the expired ones are dropped (500)
  MaxTime, MaxRequests \* bounds

VARIABLES
  accounts,   \* the password of each account
  cookie,     \* the account a browser's cookie names
  signin,     \* the request each browser waits for
  buckets,    \* of each limiter, by key
  now,
  requests,
  typed,      \* history: what each browser typed
  granted     \* history: when a limiter let a key pass, each time it did

vars == <<accounts, cookie, signin, buckets, now, requests, typed, granted>>

-----------------------------------------------------------------------------
Limiter == {"login", "signup", "create"}
AccountName == {Lower[n] : n \in Name}
Bucket  == {Address[b] : b \in Browser} \cup {Forwarded[b] : b \in Browser} \cup AccountName
NoBucket == [count |-> 0, reset |-> 0]
Idle     == [stage |-> "idle", name |-> Nothing, password |-> Nothing, row |-> Nothing]

ClientKey(b) == IF TrustForwarded /\ Forwarded[b] # Nothing THEN Forwarded[b]
                ELSE Address[b]

Open(l, k) == buckets[l][k].reset > now
(* consume: what the limiter knows after a request, refused ones included. *)
Counted(l, k) == [buckets[l] EXCEPT ![k].count = @ + 1]
PrunedAll(bs) ==    \* variant: the live ones go
  IF Cardinality({k \in Bucket : bs[k] # NoBucket}) <= Crowd THEN bs
  ELSE [k \in Bucket |-> IF bs[k].reset > now THEN NoBucket ELSE bs[k]]
(* A new window is opened, and the expired ones go once there are many.    *)
Pruned(bs) ==
  IF Cardinality({k \in Bucket : bs[k] # NoBucket}) <= Crowd THEN bs
  ELSE [k \in Bucket |-> IF bs[k].reset > now THEN bs[k] ELSE NoBucket]
Opened(l, k) == Pruned([buckets[l] EXCEPT ![k] = [count |-> 1, reset |-> now + Window]])
Allowed(l, k) == Open(l, k) => buckets[l][k].count < Limit

Consume(l, k) ==
  /\ buckets' = [buckets EXCEPT ![l] = IF Open(l, k) THEN Counted(l, k) ELSE Opened(l, k)]
  /\ granted' = IF Allowed(l, k) THEN [granted EXCEPT ![l][k] = Append(@, now)] ELSE granted

Asks     == requests < MaxRequests /\ requests' = requests + 1
Step(b, stage) == signin' = [signin EXCEPT ![b].stage = stage]
GiveUp(b)      == signin' = [signin EXCEPT ![b] = Idle]

-----------------------------------------------------------------------------
Init ==
  /\ accounts = [a \in AccountName |-> Nothing]
  /\ cookie = [b \in Browser |-> Nothing]
  /\ signin = [b \in Browser |-> Idle]
  /\ buckets = [l \in Limiter |-> [k \in Bucket |-> NoBucket]]
  /\ now = 0 /\ requests = 0
  /\ typed = [b \in Browser |-> {}]
  /\ granted = [l \in Limiter |-> [k \in Bucket |-> <<>>]]

(* The name is looked up; the limiter of the branch it leads to decides.   *)
LookUp(b, n, p) ==
  /\ signin[b].stage = "idle" /\ Asks
  /\ LET a == Lower[n]
         l == IF accounts[a] = Nothing THEN "signup" ELSE "login" IN
     /\ Consume(l, ClientKey(b))
     /\ signin' = IF Allowed(l, ClientKey(b))
                  THEN [signin EXCEPT ![b] = [stage |-> l, name |-> a, password |-> p,
                                              row |-> accounts[a]]]
                  ELSE signin
     /\ typed' = [typed EXCEPT ![b] = @ \cup {<<a, p>>}]
  /\ UNCHANGED <<accounts, cookie, now>>

(* The password is compared with the row that was found.                   *)
Verify(b) ==
  /\ signin[b].stage = "login"
  /\ IF signin[b].password = signin[b].row THEN Step(b, "accepted") ELSE GiveUp(b)
  /\ UNCHANGED <<accounts, cookie, buckets, now, requests, typed, granted>>

InsertOrFind(b) ==    \* variant: a name taken meanwhile is logged in to
  /\ signin[b].stage = "signup"
  /\ accounts' = IF accounts[signin[b].name] = Nothing
                 THEN [accounts EXCEPT ![signin[b].name] = signin[b].password] ELSE accounts
  /\ Step(b, "accepted")
  /\ UNCHANGED <<cookie, buckets, now, requests, typed, granted>>

(* The password has been hashed; the insert fails if the name is taken.    *)
Insert(b) ==
  /\ signin[b].stage = "signup"
  /\ IF accounts[signin[b].name] = Nothing
     THEN /\ accounts' = [accounts EXCEPT ![signin[b].name] = signin[b].password]
          /\ Step(b, "accepted")
     ELSE GiveUp(b) /\ UNCHANGED accounts
  /\ UNCHANGED <<cookie, buckets, now, requests, typed, granted>>

SetCookie(b) ==
  /\ signin[b].stage = "accepted"
  /\ cookie' = [cookie EXCEPT ![b] = signin[b].name]
  /\ GiveUp(b)
  /\ UNCHANGED <<accounts, buckets, now, requests, typed, granted>>

(* A store error, a hash that fails, a client that is gone: the account    *)
(* may have been created all the same.                                     *)
Break(b) ==
  /\ signin[b].stage # "idle" /\ GiveUp(b)
  /\ UNCHANGED <<accounts, cookie, buckets, now, requests, typed, granted>>

(* Or the cookie is two weeks old.                                         *)
Logout(b) ==
  /\ cookie[b] # Nothing
  /\ cookie' = [cookie EXCEPT ![b] = Nothing]
  /\ UNCHANGED <<accounts, signin, buckets, now, requests, typed, granted>>

(* A request for the account's eyes: a new character, or a preview of one. *)
CreateCharacter(b) ==
  /\ cookie[b] # Nothing /\ accounts[cookie[b]] # Nothing /\ Asks
  /\ Consume("create", cookie[b])
  /\ UNCHANGED <<accounts, cookie, signin, now, typed>>

(* Buckets are memory of one process.                                      *)
TimePasses ==
  /\ now < MaxTime /\ now' = now + 1
  /\ UNCHANGED <<accounts, cookie, signin, buckets, requests, typed, granted>>

Next == \/ \E b \in Browser : \/ \E n \in Name, p \in Password : LookUp(b, n, p)
                              \/ Verify(b) \/ Insert(b) \/ SetCookie(b)
                              \/ Break(b) \/ Logout(b) \/ CreateCharacter(b)
        \/ TimePasses

Spec == Init /\ [][Next]_vars

-----------------------------------------------------------------------------
TypeOK ==
  /\ accounts \in [AccountName -> Password \cup {Nothing}]
  /\ cookie \in [Browser -> AccountName \cup {Nothing}]
  /\ \A b \in Browser : signin[b].stage \in {"idle", "login", "signup", "accepted"}
  /\ buckets \in [Limiter -> [Bucket -> [count : Nat, reset : Nat]]]
  /\ now \in 0..MaxTime /\ requests \in 0..MaxRequests

(* Whose cookie a browser has, of that account it has typed the password,  *)
(* whoever created it first.                                               *)
CookiesAreEarned ==
  \A b \in Browser : cookie[b] # Nothing => <<cookie[b], accounts[cookie[b]]>> \in typed[b]

(* However the windows fall, a key passes less than twice the limit in any *)
(* stretch as long as a window, and dropping buckets lets nobody pass.     *)
LimitsHold ==
  \A l \in Limiter, k \in Bucket :
    LET passed == granted[l][k] IN
    \A i \in 1..Len(passed) : i + 2 * Limit - 1 <= Len(passed) =>
      passed[i] + Window <= passed[i + 2 * Limit - 1]
=============================================================================
