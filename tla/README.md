# A verification development of dragon-shift

dragon-shift is a workshop game: players of one session each create a dragon,
observe it, write notes, hand it over, care for another player's dragon from
the notes, and vote.  A Rust server (axum, Postgres) keeps the sessions, a
language model judges the care and draws the dragons, and a web client follows
over websockets.

This directory holds TLA+ modules for the parts of the server and of its client
where order, failure and staleness decide, TLC configurations that check them
on small instances, and TLAPS proofs of main invariants for every instance.

Paths below are relative to `src/platform/`; `http`, `ws`, `cache`, `auth`,
`llm`, `app` and `main` are files of `app-server/src/`, `domain`,
`persistence`, `realtime` and `security` the crates of that name, `app-web` the
client.

## Inventory

| Component | State | Operations | Talks to | What must be true of it | Module |
|---|---|---|---|---|---|
| Session and phase machine (`domain`, command handlers of `http`, deadlines of `ws`) | phase, players, dragons, notes, vote, scores | join, character, start, handover, notes, phase 2, vote, reveal, end, reset, deadlines | cache, store, judge | players and dragons are paired; dragons change hands with notes; votes are legal; timed phases end | `Workshop` |
| Host and presence (`domain::ensure_host_assigned`, `ws`, `cache`) | host, reserved host, `is_connected`, connection rows | join, rejoin, attach, close, expiry, reload | connection rows, session | the owner hosts while connected; a session has a host; a live player is shown as connected | `Workshop` |
| Background judge (`http::run_judge_for_session`) | bundle in a task's memory | copy, model call, apply | session, model | scores are those of this game's judgements, each once | `Workshop` |
| Dragon care (`domain::apply_action`, `advance_tick`) | stats, cooldowns, streaks, awards | feed, play, sleep, tick, awards | session | bounds; awards given when earned | `DragonCare` |
| Session cache, saves, listener (`cache`, `main`, `persistence`) | cached copies, rows, notifications, remembered fingerprints | load, reload, save, hear, evict, restart | all handlers, Postgres | cache and store agree once all is heard; acknowledged work stays | `SessionCache` |
| Session write lease (`cache`, `persistence`) | lease row, active flag, renewal task | acquire, renew, release, expire | all handlers | one writer per session | `WriteLease` |
| Realtime connections (`realtime`, `ws`, `persistence`) | registry, rows, fences, heartbeats | attach, claim, replace, restore, release, expire | session, clients | one live socket per player; dead ones disappear | `Realtime` |
| In-memory store (`persistence`) | maps | those of Postgres | all handlers | it does what Postgres does | `Stores`, `Directory` |
| Broadcasts and the client's reducer (`ws`, `app-web/src/state.rs`) | dirty set, queues, revisions | mark, drain, snapshot, delta, apply | clients | clients reach the server's state | `Broadcasts` |
| Player identities (`http`, `persistence`) | token hashes, last seen | issue, find, replace, delete | join, attach | a seat is opened by its own key | `Seats` |
| Characters and sprites (`http`, `persistence`) | characters, sprite caches | create, choose, redraw, delete | model, seats | nobody shares a character; sprites exist and are current; one redraw | `Seats`, `Sprites` |
| Image queue, model client (`http`, `llm`) | semaphore, provider cursors, token | ask, grant, time out, call, fail over, pause | providers | permits come back; every call ends; bounded failover | `ModelCalls` |
| Accounts, rate limits (`auth`, `security`) | accounts, cookies, buckets | sign in, sign out, consume, prune | all handlers | a cookie is earned by a password; limits hold | `Accounts` |
| Workshop directory (`http`, `persistence`) | workshop rows | create, list, delete, archive | client | walking through the pages shows every workshop | `Directory` |
| Web client (`app-web`) | screen, session, pending operation, tasks | navigate, request, answer, update | server | answers land where they belong; the tab never locks up; it offers what the server accepts | `Tab`, `Offers` |
| Wiring, xtask, helm, terraform, e2e | | | | not part of the program's logic | |

What makes the system hard: a handler changes the cached session first and
saves it later; the listener and loads do not take the lock that handlers take;
a closing socket acts in two parts, with the lease acquired between them; a
judge run or a drawing lives for many seconds beside everything else; a handler
is dropped where it awaits when its client hangs up; ticks and
warnings live mostly in the cache; a client is told by several tasks at once;
the process may restart anywhere.  `PROJECT.json` lists these hazards line by
line, with the properties that cover each.

## Modules

| Module | Contents |
|---|---|
| `Workshop` | the session, its host, presence, vote, deadlines and judge; handlers are single steps |
| `GameFlow` | the game players are promised: its phases, seats, exchange of dragons, notes and votes, without servers, hosts or clocks |
| `Offers` | what the client lets a player do in each state of `Workshop`, and what the server accepts |
| `MCWorkshop` | accounts and bounds for the runs of the two |
| `WorkshopProofs` | the rotation; the inductive invariant of `Workshop` and its theorems; who hosts; `Workshop` implements `GameFlow`; what the client offers is accepted |
| `DragonCare`, `MCDragonCare`, `DragonCareProofs` | one dragon through both care phases, with the code's amounts |
| `SessionCache`, `MCSessionCache`, `SessionCacheProofs` | the inside of the handlers: change, save, notification, eviction, load, failure, restart |
| `WriteLease`, `ExclusiveWriter`, `MCWriteLease`, `WriteLeaseProofs` | the lease on several replicas, the abstract exclusive writer, and that one implements the other |
| `Realtime`, `MCRealtime`, `RealtimeProofs` | all sockets of one player on two replicas |
| `Stores` | the store in memory beside Postgres, for sockets |
| `Broadcasts` | marks, drains, patches, queues, and what the browser makes of them |
| `Directory` | the list of workshops, its pages and cursors, in both stores |
| `Tab` | one browser tab: screens, reservations, tasks, late answers |
| `Seats` | keys, players and characters of one workshop |
| `Sprites` | the sprite cache of each server |
| `Accounts` | sign-in and the rate limiters |
| `ModelCalls`, `ModelCallsProofs` | the image queue, the provider pool and the token |
| `MCSeats`, `MCClient`, `MCDeadlines` | runs of several models that share no state |
| `SeatsProofs`, `ClientProofs` | proofs about the first two of these, for every value of their constants |

**Runs of several models.**  `MCSeats` (`Workshop`, `Seats`, `Accounts`,
`Sprites`, `Stores`), `MCClient` (`Broadcasts`, `Directory`, `Tab`) and
`MCDeadlines` (`ModelCalls`, `Workshop`) each put models side by side whose
components do not meet in the code, or only through what one model leaves to
another.  A variable `part` says which model a behaviour belongs to; the
variables of the others are the constant `Unused`, or, in `MCDeadlines`, frozen
in an initial state.  Nothing is hidden by that: a property of one part is
checked on all of that part's states, and the numbers of states add up.
The constants of the parts are constants of these modules, and get their values
in the .cfg files; so what is proved about a run's specification is proved for
every instance of each part.

### Workshop

`session` is the cached `WorkshopSession` (the persisted one when `cached` is
false), `stored` the row, `sockets` and `rows` the websockets and the
`realtime_connections` rows, `leaving` what a closing socket has read before it
gets the lease, `timer` how far the clock of the phase has come, `judges` the
background runs.  Every handler is one action, because it runs under the write
lock and lease of the session; what it does outside them is a separate action:
`Release` / `Disconnect` for `sync_ws_disconnect`, `JudgeSnapshot` /
`JudgeApply` for `run_judge_for_session`.  `Load` stands for every access to an
evicted session, `Restart` for a crash.  Player ids are numbers since the key
order of the `BTreeMap`s is observable (rotation, first owner), and the dragon
of player p is p, as `dragon_<p>` in the code.  `EnsureHostAssigned`,
`Sanitized`, `Restored` and `Reloaded` are the functions of those names (or of
the file `cache.rs`), and all handlers call them where the code does.

That handlers are single steps is an assumption of `Workshop`; `SessionCache`
is there to examine it, and refutes it in three places: a load that overlaps a
save, a closing socket whose save fails, and a handler whose client hangs up.
`WorkIsKept` and `DurableProgress` of `Workshop` rest on it: they speak of
handlers that nothing overlaps and nobody drops half-way.

`GameFlow` is what the players are promised, and `ImplementsGameFlow` says that
the stored session is such a game, under the mapping at the end of `Workshop`:
a phase leads to the next one only, `Judge` may be left out, a reset leads back
to the lobby from anywhere and leaves one player; players are seated in the
lobby only; everybody begins with their own dragon and hands it to another;
notes and votes stay until the next game; the vote is shown before the end.  It
leaves open who moves the game on.  It speaks of what is stored, since the
cache may show `Judge` for a moment and take it back (`JudgeLeaseLost`).

### Offers

`Told` is what the server tells a player of the session, `Buttons` what the
views make of it, each from its own code; `Accepts`, whether the server would
take the command, asks the guards of its actions in `Workshop` (`MayStartPhase1`
to `MayEndSession`).  `ClientAndServerAgree`: a player who sees the current state
is offered nothing that is then refused, and the host, in the lobby and while
voting, always has a way on.  `LeftToTheServer` lists what is offered and may be
refused all the same: a start with players who are not ready, phase 2 with
notes missing, and, in the phase Judge, vote cards, since the end view serves
Judge, Voting and End (`VotingView` is not used).  The client has no button for
StartVoting or SelectCharacter.

### DragonCare

One dragon, cared for by its creator in phase 1 and by its keeper in phase 2.
`Feed`, `Play` and `Sleep` are `apply_action` with its checks, amounts,
penalties and awards, `AdvanceTick` is `advance_tick` with decay by time of day,
and the phase ends as the code lets it, on four paths. The day is 6 ticks rather
than 48 and the thresholds of awards are small, so that each award is reached;
the amounts are the code's.

### SessionCache

A copy of the session is what commands have added (`work`), the ticks of its
clock and its `updated_at` (`stamp`, a logical clock: `touch` draws a new one).
`writer` is the handler that holds the write lock, has changed the cache and
awaits its save; `loading` the rows that loads have read and not yet cached;
`closing` what `sync_ws_disconnect` cloned before it waited; `notes` the
notifications in flight, two for each save; `recent` the remembered
fingerprint.  A save may fail with or without having committed; the handler
then puts back what the code puts back.

No load takes the write lock: `ensure_session_cached`, called by every broadcast
and command, caches what it has read if nothing is cached by then, and the
reload with which redrawing begins caches it whatever is.  So `FinishLoad` may
replace any copy, also that of a handler in the middle of its save; and a
handler that has reloaded may find that another load was faster (`base` in
`ReloadThenChange`).  The listener evicts without the lock as well.

`HangUp` is a handler that its client drops in its save.  It frees the lock and
puts nothing back; its transaction is rolled back, or its commit was already
sent and is done later (`stray`, `Land`), until when the row is locked.  A judge
that loses its lease before its save puts nothing back either, and neither does
a refused start of phase 2 that has filled in notes (`Refuse`), whose copy keeps
the `updated_at` of the row beside it.  In these three cases the cached copy
has work the row has not, which everybody is shown; the next save of the session
stores it, or the next reload takes it back.  `CacheCatchesUp` says that a quiet
cache has other work than the store in no other way (`ahead`), beside the loads
and failures it names (`damaged`).  Not counted as work are presence, which
every load adds from the connection rows, and the mark that players were warned,
which the ticker sets in the cache only; both are in `Workshop`.

Work of different commands commutes, so a set suffices.  One replica is
modelled; the guard on `updated_at` in `save_session_in_tx` never refuses
there, since each write draws its stamp under the lock.  `acked`, `undone`,
`damaged`, `ahead` and `unsaved` are history variables.

### WriteLease

A writer takes its replica's mutex, asks for the row until its patience ends,
loads, works and saves; beside it a task renews the row and clears the flag if
it cannot, and another releases it.  Time passes in units of `Tick`.  The
ticker takes the mutex only, as in the code.  `log` is the stored session as
the sequence of saves that made it, which tells lost updates.  The cached copy
a writer builds on may be any version there was (`Build`): neither eviction nor
load takes the lock, and a slow load may cache an old row, on one replica too.
`had` is the newest version that a replica has saved itself or a writer of it
has reloaded under the lock, and `misled` the writers that built on an older
one: for them the cache has lost what the replica had, in one of the ways
`SessionCache` examines (`stale_write` is one).
`ImplementsExclusiveWriter` is the refinement: under timely renewals no two
handlers are inside.  `LostUpdatesExplained` says when an update may still be
lost: by a writer that was misled, or between replicas, if a renewal or a save
was late, or a tick or a command's cached copy is part of it.  No exception can
be left out: TLC finds an update lost by each of them alone.

### Realtime

`pc` is where the handler of each socket is, one step for each await on the
store.  The rows and fences are those of Postgres; `registry`, `senders`,
`beating`, `asked` and `retired` are the maps of each replica.  `ForceClose`
is a broadcast that finds a registered socket unable to take more.  History
variables name the sockets that a failed store call touched, since for these
two promises do not hold: the code retries neither the release of a row nor its
restoration.  `GhostsUnfed` exempts one further case the model found: another
replica restores a socket that had given up its row, while a failed attach has
just revived that socket's heartbeat.  Not stated, since the code does not give
it: a socket whose row had expired, and which another replica had replaced
after that, was never fenced, and its close shows the player as disconnected.
The properties are safety properties; that ghosts disappear follows from
`GhostsUnfed` and the time to live of a row.

### Stores

The same calls are put to both stores, each transcribed from its own code, and
the answers and the rows compared (`StoresAgree`).  The server runs on the
store in memory without `DATABASE_URL`, and so do all tests of `app-server`.
The stores part in two ways that the code shows: sweeping of old rows (Postgres
sweeps when it lists and rolls a sweep back when it refuses; the store in
memory sweeps at a refused claim, and not when it lists), and `restore`, for
which the store in memory wants a fence and Postgres does not.  The behaviour
ends there (`parted`).  The second difference means that the case which
`Realtime` exempts from `GhostsUnfed` cannot show up in a test of the server.
Sockets of two replicas may attach at once here, as after a lapsed lease.

### Broadcasts

A change is saved, marked dirty or patched; a drain or a patch clones the
cached copy and queues it later.  The browser keeps the state with the highest
revision.  `QuietMeansCurrent` holds since the last full state, unless
something was taken back after it or something newer had been dropped.  The
exception is real: revisions count from what is stored, and ticks are mostly
not, so after a restart or reload clients drop whatever comes, a phase change
included, until the revision has caught up or they reconnect.

### Seats, Sprites

`row` and `copy` are the stored and the cached session, `keys` the player
identities, `request` what is under way.  A request is authorised by its key
before it waits for the lease, and drawing takes minutes without the lease.
Starters are leased as copies with new ids, so two players may have one look,
never one character.  Redrawing leaves the cap on characters aside, and takes
as owner whoever the character had when the request began.  In `Sprites`, a
load that has read the row before a change or deletion puts the old images
into the cache after the eviction, where they stay until a restart; and other
servers are not told of a change.  `SpritesAreSound` names both ways out, and no
other exists.  (The images are served as `immutable`, so a browser keeps them
anyway.)

### Accounts

One request creates an account or signs in to it.  Passwords, names (with
capitals, which the code folds) and browsers are small sets; hashing and
signing are taken to work.  The limiter is transcribed with its windows.  Its
limit holds for a window; the comment "Login rate limit: 10/min/IP" is about a
minute, in which nearly twice as many pass, so `LimitsHold` states that.

### ModelCalls

`queue` and the permits are the image queue, `pool`, `cursor` and `token` the
model client; a job is where its request is.  Which providers are usable, which
errors fail over, which go round again, where tokens come from and when they go
stale follow `llm.rs`.  A permit is held for the whole call, through all rounds,
providers and pauses, much longer than the twenty minutes others wait for it.
Any request may be dropped with its client; so may `llm_judge`, which judges in
its handler, while the judge that a command begins has a task of its own.

### Directory, Tab

`Directory` walks through the pages while workshops are created, played,
archived and deleted.  `PagesAreWhole` is about lists whose workshops all have
a named host: Postgres fetches one row more than the page, and drops rows
without a name after that, so with such a row a page may say there is no next
one although there is.  The store in memory drops them first; its comment
"Matches the Postgres impl." is true otherwise, which `PagesAgree` states.

In `Tab` a task belongs to the view that started it and dies with it.  Of the
operations begun inside a session `ReservedIsAwaited` says nothing, because any
state of the session changes the screen and drops tasks: the app bar's form for
a new dragon, opened inside a session, is closed by the next state, and the
reservation stays until the page is reloaded; another player ending the session
while an archive is being built does the same to the archive.  The flow of
`submit_reconnect_flow` is used by tests only and is not modelled.

## Runs

| Run | Instance | Shows |
|---|---|---|
| `two_players` | owner and guest, one game, one judge run, websockets, restarts | types, pairing, notes, votes, results, what a crash may cost, scores, no work lost; what is stored is a game of `GameFlow`; the client's buttons agree with the server |
| `deadlines` | two calls, one permit, pools of three, one and no providers; two players without websockets, fair clock, ticker and judge | every model call ends, and is given up only after all providers; timed phases end |
| `session_cache` | work of commands and of a refused handover, three ticks, three changes, one load and one closing socket at a time, hang-ups, all failures | the cache catches up; answered work is saved |
| `write_lease` | two replicas, three handlers, one ticker | the lease is exclusive; an update is lost only by a misled writer or between replicas; the row comes free |
| `realtime` | three sockets on two replicas, one attaching twice, two that broadcasts may force closed, one fault | who owns the row hears; nobody is unwatched; the replaced leave quietly; ghosts are not fed |
| `client` | two players and one client; three workshops, pages of one; a tab with two accounts, sessions and tasks | a quiet client is current; pages are whole; reservations are awaited; the tab shows its own |
| `dragon_care` | one dragon, two players, days of six ticks | bounds, counters, dips and awards |
| `seats` | hosts with three ids; two seats, two keys, one starter; two browsers; one character on two servers; three sockets in two stores | hosts, characters, sprites, cookies, limits, stores |
| `late_judge` | two players, two games, one judge run | a judge run of one game delivers in the next |
| `presence` | two players, websockets | a late close shows a connected player as disconnected |
| `stale_write` | no failures | a save built on an old copy is accepted over acknowledged work |
| `redraw` | as `seats` | a dragon is redrawn more than once |

The last four are violations: the property states what a document, a comment, an
error message or a test says, and TLC finds the behaviour of the code that
contradicts it; `PROJECT.json` quotes the lines under `findings`.

Other sentences the code does not follow were seen while modelling and have no
run: `docs/METHODOLOGY.md:231` (the vote is for the dragon in care; it is for
any dragon not created), `:158` (scores are zeroed at the end; they stay),
`:10` (the judge's place in the flow of the game), `:245` (`/llm/images`
requires a phase 0 that is no longer entered); the protocol's comment that
redraws happen in the lobby (any phase); `llm.rs`, which pauses "when every
provider is rate-limited", and does so also when they were unavailable;
`persistence:177`, that `has_more_after` tells of another page.

**Bounds.**  Two players suffice for everything about pairs of actors (host and
guest, the player and their old socket, voter and creator); the third id of the
hosts in `seats` is the owner's second one, after a reset, the case that host
assignment is intricate for; that the rotation is neither the identity nor ill
paired for any number is proved.  `MaxGames` is 1 except where a second game
matters.  `BeforeHandover` cuts the hosts' part of `seats` before play, which
changes neither who is there nor who hosts; `OthersHere` keeps `dragon_care`
to one absent player, the one who has the dragon.  In `SessionCache` one item
is a command's and one is what a refused handover fills in; a lost
update needs two changes, and a remembered fingerprint, or a closing socket that
puts an old copy back over one, a third; `Day = 3`, `SaveEvery = 2` keep the
code's relation (48, 5) in which the saving interval does not divide the day.
In `WriteLease` three handlers and a ticker make a holder, one that waits, one
that gives up and one without a lease.  In `Realtime` a socket, its replacement
and one on the other replica meet, one of them attaching again; one store
failure shows every way in which a failure bites once.  `Clogged` names the two
sockets of one replica, which saves a third of the states; with all three the
properties hold as well.  In `Stores` three
sockets of one player are a socket, one that replaces it and fails, and one
that comes between; whose sockets they are is chosen in the initial state, and
the second choice gives one of them to another player.
In `Directory` pages of one row and three workshops give first, inner and last
pages; `ModelCalls` has two requests for one permit.  All counters are bounded
in guards by the constants named `Max...`.

**Deadlock** is not checked in `client`, `seats`, `redraw`, `realtime` and
`write_lease`: their actors come to an end (sockets close, writers finish,
histories reach their bound).  Elsewhere a restart, a load or a tick is always
possible, and the check is on.

**Symmetry** is used only for safety, over keys, requests, passwords, tasks,
accounts, pieces of work and the two sockets of one replica, which nothing
orders.

**Fairness.**  `deadlines` assumes weak fairness of the clock, of the ticker's
`AdvanceOverduePhase`, of the judge's steps and of `Proceed`, the next step of
each model call: the ticker is a loop for the life of the process
(`main.rs:264`), a model call has a timeout and a local fallback, and the
semaphore serves in turn.  No fairness is assumed of players, of providers
(they may fail always), nor of reloading an evicted session: `TimedPhasesEnd`
only speaks of sessions in the cache, since the code looks for deadlines
nowhere else.  `write_lease` assumes that writers and tasks are scheduled and
that time passes; the store may fail for ever.

## What is proved

Each argument is the same: an inductive invariant that says of every moment what
the property says of some, which TLC checked first as an invariant of the run
(up to 10.9 million states for `SessionCache`, 6.0 for `Realtime`, 3.9 for
`Broadcasts`), one lemma for each action, and the theorems from it.

*Workshop* (`WorkshopProofs`).  The rotation first.  `Previous` is the cyclic
predecessor in the order of the ids.  Existence of least and greatest elements
of finite sets of naturals gives that it is onto; that two players with the same
predecessor would lie between each other gives that it is one to one
(`RotationIsBijection`); with two or more players it has no fixed point
(`RotationMovesEveryDragon`).

`IInv` is `TypeOK` and, for the cached and for
the stored copy, `Sound`: types, pairing, "handed over means rotated", "handed
over means with notes", legal votes, and "an ended session has counted its
ballot".  It must hold of both copies since every reload starts from the stored
one, and must tie the phases together since a judge run may find the session
anywhere.  From it follow `TypeOK`, `CareIsPairing`, `NobodyKeepsTheirDragon`,
`NobodyStartsBlind` and `VoteIsFair` for every finite set of
players, every assignment of accounts, any number of judge runs and games.
`ProgressIsDurable` adds what a crash may cost: a save makes cache and store
agree on `Progress`, a reload brings back what is stored since host assignment,
presence and scores are no part of it, and of the steps that touch the cache
alone each is shown to keep it (fallback notes of a refused handover, the
warning, a judge run that lost its lease, which may show `Judge` early).
`NoWorkIsLost` follows action by action: one that reloads has the stored
progress, which is the cached one.  `ScoresHoldInFirstGame` needs `ScoreInv`:
nothing is judged before the handover, since the rotation would move what has
been counted; and a run of the first game has all its dragons in its bundle, or
finds none left after a reset.  A second game breaks this (`late_judge`).

*Hosts* (`WorkshopProofs`).  `HostDue`, what host assignment leaves behind, is
not inductive: the next reload assigns again, from the stored copy.  So `HInv`
also says, of both copies, that they are fit for it (`FitForHost`): a host is a
player, a host is reserved only while the owner has not joined, and the owner
has one seat, which the check in `join_workshop` gives.  `AssignmentHosts` shows
that from such a copy `ensure_host_assigned` gives the host that is due, with
or without preference for connected players; the remaining operations leave the
host alone, and a reset leaves the host as the only player.

*The game* (`WorkshopProofs`).  `WorkshopIsAGame`: every step of `Workshop` is a
step of `GameFlow` on what is stored, or changes nothing there.  A handler works
on the cached copy or on a reload; by `DurableProgress` either tells what the
store does (`ToldAlike`), but that the cache may know of a judgement whose save
was lost.  So a command that saves anything in phase 2 may be the step that
stores `Judge` (`SelectCharacter` is), and the vote may open from either phase.  The
exchange is the rotation, onto and without fixed points; that all players may
vote is `Paired`; that the ballot is revealed at the end is `CountedBallot`; and
that a game begins with players, and a reset leaves one of them, needs `HInv`:
the host is a player.

*Offers* (`WorkshopProofs`).  That a vote which is offered is taken needs what
`IInv` does not say: no ballot is left over from another phase, all players are
voters from the opening on if they are several, and an open ballot is for
somebody (`BallotDue`).  It is an invariant of the abstract game, where few
steps touch a ballot; so it holds of what is stored, by `WorkshopIsAGame`, and
of the cached copy the client is told of, by `DurableProgress`.  Then
`OffersAgree`, view by view: the cards a player can choose are dragons of
others, since the server names the creator of a player's own dragon alone; and
with an open ballot the host can vote for another's dragon, there being another
player, or has voted, and then can reveal.

*DragonCare* (`DragonCareProofs`).  The counters' invariant is the property
with the types of the counters.  For `NoDipUnseen` the cooldown says how long
ago the last action was; between two actions lies a tick, which records the
happiness the first has left, before the second can repair it.
`AwardsAreGivenWhenEarned` is about steps: it needs both, since `steady_hand`
looks at the recorded dip and not at the happiness, and that the awards of
actions, of ticks and of the ends of phases are different ones, so that none
can stand in for another.

*SessionCache* (`SessionCacheProofs`).  `Kept`: while nothing was undone, the
answered work is in the store, in the cached copy, in the copy being saved or
left to be committed, and in the one a failing command or reload would put back.
Hence `AnsweredWorkIsSaved` for any number of commands, sockets, loads, ticks,
hang-ups and failures.  The theorem names the ways out: a load that read another
row than it is cached beside, or that overlapped a save, and a closing socket
whose save fails.  `stale_write` shows the first is real.
`CacheFollowsStore` rests on the stamps: of all copies in anybody's hands two
with one stamp have the same ticks, and the one saved has no work the other
lacks (`StampsTell`), so that a fingerprint tells a server's own
save from another's, and one with more work than its stamp tells has it from a
refused handover; and while the announcement of the stored copy is not still
to be heard, and no command is under way, the cache has the stored work, other
work only if a handler left it there unsaved, and of the store's ticks all that were due
to be saved, but for those of failed saves (`Follows`).

*WriteLease* (`WriteLeaseProofs`).  The invariant ties rows, holders, flags and
ages together: while nothing was late, whoever has its flag set owns the row
with time left, and a mutex has one holder on each replica.  And it says what a
writer that was not misled has seen of the log: all that its replica had saved
before, since of its neighbours the mutex lets none in between, and, if it
reloaded, all there was, since while nothing was late only a ticker can have
saved after that.  Nothing is assumed of the cache: a writer may build on any
version. From it follow `TypeOK`, `LostUpdatesExplained`, and that every step of
the lease is a step of `ExclusiveWriter` or none: `LeaseIsExclusive`, for any
replicas, writers and intervals.

*Realtime* (`RealtimeProofs`).  The four properties are about moments at which
no attach is under way.  `RInv` says what holds meanwhile: what the attach in
flight has undone so far and whom it would have to restore (`FlightInv`); that a
socket in its first attach is known to nobody else, so that its row, fence and
heartbeat are its own doing; that a row and its fence exclude each other; that
a socket the loop of which goes on can still be asked to end; and that whom a
completed attach displaced stays fenced until closed, unless a store call for
it failed.  Then `OwnersHear`, `NobodyGoesUnwatched`, `TheReplacedLeaveQuietly`
and `GhostsGoUnfed`, for any number of sockets and replicas.

*Broadcasts and the tab* (`ClientProofs`).  `BInv`: whatever of the session a
client does not show yet is on its way to it, in a queued message, in a drain
that has cloned its copy, in a mark, or in the hands of the writer.  Messages
overtake each other, and the client keeps the highest revision; so copies on
their way must be comparable, which those are not that have been taken back by
a failed save or a restart since, and these the invariant leaves out, as the
property does.  `TInv` says who holds a reservation: the task of the operation,
which is the current one, and a tab that awaits an answer shows the session it
asked for.  Hence `ClientsAreCurrent`, `TabsAreReleased` and
`TabsShowTheirOwn`, about the run's own specification.

*The list* (`ClientProofs`).  The listed workshops are in a strict order, so
that a rank tells how many are ahead, every rank below the size is some row's,
and no two rows share one (`RankTells`, `RankTaken`); a page is an interval of
ranks.  In a set that has, with each row, all those ahead of it, ranks are as in
the larger set, and in one that lacks only rows ahead of its own they are lower
by as many (`RankInFront`, `RankAtBack`).  Hence the row fetched beyond a page
tells whether there are others (`OneMoreTells`), and truncating what Postgres
fetched and then sieved leaves no row that the store in memory would not show
(`SievedPage`, `StoresPageAlike`).  For the walk `LInv` says where what is
still to be shown lies: on the page that is asked for, and beyond the cursor that
leads on; a change takes away only what it moves or hides.  Hence
`PagingShowsAll`, and with the types of the tab (`Screens`, `Operations`)
`ClientsAreTyped`.

*Seats* (`SeatsProofs`), about the specification of `seats`.  Every copy of the
session (stored, cached, or of a workshop being created) is sound: its
characters' ids have been drawn, a character is of the player's account or a
starter, no two seats have one character, and no account has two seats.  The
last two hold each other up: the character a seat is given by a join is none of
the account's that others play, because others are of other accounts.  A
redraw writes its row without looking at the owner again, so the invariant also
says that the owner it noted is the player's account or nobody; and a request
is only under way once the workshop has been answered, since the copy being
created and the stored one need not be apart.  *Accounts*: accounts are never
changed once they are there, and a request carries what its browser typed; so
the cookie it earns belongs to an account with that password, whoever's
insertion came first.  For the limits, the passes granted to a key are a
sequence of times, in which each window marks where it began (`LimitInv`):
fewer than the limit lie between one mark and the next, and marks are a window
apart, so any window's length meets at most two of them.  *Sprites*: what a
load has read and not yet inserted is the row, or an eviction is to come, or the
replica is excused.  *Stores*: the fences are equal, the
tables of rows differ only in rows past their time (`SameRow`), and the map from
players to connections of the store in memory finds what its map of connections
has, so that each player has one row (`SlotsFit`).

*Model calls* (`ModelCallsProofs`).  A round begins where the cursor all calls
share pointed, and is the call's own from then on: what it has tried is a
stretch of the circle of providers, and all of the circle, each provider once,
when it is as long as the pool (`FullTurn`).  That a provider is `Resolved` only
from usable entries, that a permit is only taken when one is free, and that the
queue is those who wait, once each, complete the invariant; hence
`CallsStayInOrder`, for any pool and any number of requests and permits.

Assumptions: the `ASSUME`s of the modules, all named: ids are finitely many
naturals, requests are finitely many, absent values are no members, bounds are
naturals, of the times at which workshops change one is the last, a starter's owner
is nobody or an account, a socket is of one replica.  TLC evaluates them in the
runs.

Only model-checked: `TimedPhasesEnd`, `EveryCallEnds` and `RowComesFree`, which
are liveness under fairness and out of the prover's reach.  Every other property
of a passing run is stated by a theorem.

## What is not modelled

`PROJECT.json` gives the reason for each component.  What players write is
reduced to whether they wrote it; speech, emotions, drawings and their parts,
wording, notices, artifacts for reporting and the text of prompts are left out,
since no field the modules keep depends on them.  Hashing, signatures and
random tokens are taken to work; origins and the validation of strings are pure
functions.  Updating a lobby's durations and renaming a character are single
assignments.  Of the store in memory only sockets and pages are compared with
Postgres.  Where two models meet, one takes what the other shows: `Realtime`
and `Seats` take the lease to be exclusive (`WriteLease` says when it is),
`Workshop` takes handlers for single steps (`SessionCache` says when they are),
`Broadcasts` has one socket for each client (`Realtime` has several).

## Plan

Left, in order:

1. `DurableRegister`, the abstract promise of cache and store, with
   `SessionCache` shown to implement it up to the lost saves it names.
2. The saves, accounts and leases of the store in memory in `Stores`.
